---- MODULE Spec2Model ----
(***************************************************************************)
(* Cut-and-choose publicly verifiable encryption (cb-mpc ec_pve_t and      *)
(* ec_pve_batch_t): encrypt / verify / decrypt over one instance object.   *)
(*                                                                         *)
(* Cryptographic primitives are modelled symbolically (Dolev-Yao style):   *)
(*  - the curve group is Z_Order written additively; a point is the pair   *)
(*    (on-curve flag, discrete log), so x*G is x mod Order;                *)
(*  - a base-PKE ciphertext is the record of what it binds (encapsulation  *)
(*    key, associated data, plaintext, randomness); it opens only under    *)
(*    the matching decapsulation key and associated data;                  *)
(*  - SHA-256 and the random oracle are injective: a digest is the term it *)
(*    was computed from, and the challenge carries both its Kappa bits and *)
(*    that term;                                                           *)
(*  - the AES-CTR DRBG is a deterministic function of (seed, position).    *)
(***************************************************************************)
EXTENDS Integers, Sequences, FiniteSets, TLC

\* ------------------------------------------------------------------ bounds
\* number of cut-and-choose rows (SEC_P_COM = 128 in the build)
Kappa == 2
\* order q of the curve group
Order == 5
\* largest batch size n
MaxN == 2

Rows == 0 .. (Kappa - 1)
Scalars == 0 .. (Order - 1)
\* scalars handed to encrypt: some are not reduced mod q
XInputs == {0, 1, Order - 1, Order + 1}
\* scalars handed to the batch encrypt
BatchXInputs == {1, Order + 1}
\* 16-byte seeds gen_random can return (ZeroSeed is the default buf128_t)
Seeds == {1, 2}
ZeroSeed == <<0>>
Labels == {"backup-1", "backup-2"}
\* key pairs of the base PKE: dk k opens what was sealed for ek k
KeyIds == {"kA", "kB"}
BatchSizes == 1 .. MaxN

SUCCESS == "SUCCESS"
E_CRYPTO == "E_CRYPTO"
E_BADARG == "E_BADARG"

\* -------------------------------------------------------------- primitives
RECURSIVE SumSeq(_)
SumSeq(s) == IF s = <<>> THEN 0 ELSE Head(s) + SumSeq(Tail(s))

\* ecc_point_t: on-curve points are multiples of G
Point(v) == [on |-> TRUE, v |-> v % Order]
OffCurve(v) == [on |-> FALSE, v |-> v]
DefaultPoint == [on |-> FALSE, v |-> 0]
\* x * G
MulG(x) == Point(x)
\* Q - X
PointSub(Q, X) == [on |-> Q.on /\ X.on, v |-> (Q.v - X.v + Order) % Order]
\* curve.check(Q)
CurveCheck(Q) == IF Q.on THEN SUCCESS ELSE E_CRYPTO

\* bn_t::to_bin(): big-endian, minimal length (zero is the empty buffer)
ToBin(x) == IF x = 0 THEN <<>> ELSE <<x>>
\* bn_t::from_bin(): big-endian value of a buffer
RECURSIVE FromBinAcc(_, _)
FromBinAcc(buf, acc) ==
    IF buf = <<>> THEN acc ELSE FromBinAcc(Tail(buf), 256 * acc + Head(buf))
FromBin(buf) == FromBinAcc(buf, 0)

\* drbg_aes_ctr_t seeded with a buffer: the stream is a function of the seed
SeedNum(seed) == SumSeq(seed) + 3 * Len(seed)
\* drbg.gen(size) called as the pos-th draw on a fresh DRBG
DrbgGen(seed, pos) == [seed |-> seed, pos |-> pos]
\* drbg.gen_bn(q) called as the first draw on a fresh DRBG
DrbgGenBn(seed) == (3 * SeedNum(seed) + 1) % Order

\* genPVELabelWithPoint(label, Q) = label + "-" + hex(sha256(Q))
GenPVELabelWithPoint(label, Q) == [label |-> label, Q |-> Q]

\* pve_base_pke_i::encrypt: KEM encapsulate + AES-GCM seal, all randomness
\* drawn from a DRBG seeded with rho
NoCt == [ek |-> "", aad |-> [label |-> "", Q |-> DefaultPoint], pt |-> <<>>,
         rho |-> DrbgGen(ZeroSeed, 0)]
\* a key the KEM does not accept (its encapsulate returns an error)
BadKey == ""
\* the error_t of pve_base_pke_i::encrypt
BasePkeEncryptRv(ek) == IF ek = BadKey THEN E_CRYPTO ELSE SUCCESS
\* out_ct after pve_base_pke_i::encrypt: left empty when the call fails
BasePkeEncrypt(ek, label, plain, rho) ==
    IF ek = BadKey THEN NoCt
    ELSE [ek |-> ek, aad |-> label, pt |-> plain, rho |-> rho]
\* mutant: the associated data is not authenticated
BasePkeDecrypt_NoAad(dk, label, ct) ==
    IF ct.ek = dk THEN [rv |-> SUCCESS, plain |-> ct.pt]
    ELSE [rv |-> E_CRYPTO, plain |-> <<>>]
\* pve_base_pke_i::decrypt: deser, decapsulate, AES-GCM open
BasePkeDecrypt(dk, label, ct) ==
    IF ct.ek = "" THEN [rv |-> E_CRYPTO, plain |-> <<>>]
    ELSE IF ct.ek = dk /\ ct.aad = label THEN [rv |-> SUCCESS, plain |-> ct.pt]
    ELSE [rv |-> E_CRYPTO, plain |-> <<>>]

\* numeric fingerprints the modelled oracle derives its output bits from
CtNum(ct) == SumSeq(ct.pt) + SeedNum(ct.rho.seed) + ct.rho.pos
             + (IF ct.ek = "kA" THEN 0 ELSE 1)
RECURSIVE RowsNum(_, _, _, _)
RowsNum(i, c0, c1, X0) ==
    IF i = Kappa THEN 0
    ELSE (i + 1) * (CtNum(c0[i]) + 2 * CtNum(c1[i]) + X0[i].v)
         + RowsNum(i + 1, c0, c1, X0)
\* crypto::ro::hash_string(Q, label, c0, c1, X0, X1).bitlen(kappa)
RoHashString(Q, label, c0, c1, X0, X1) ==
    LET fp == Q.v + (IF label = "backup-1" THEN 0 ELSE 1) + RowsNum(0, c0, c1, X0)
    IN [bits |-> [i \in Rows |-> ((fp \div (2 ^ i)) + CtNum(c0[i]) + X0[i].v) % 2 = 1],
        pre |-> [Q |-> Q, label |-> label, c0 |-> c0, c1 |-> c1, X0 |-> X0, X1 |-> X1]]
\* b.get_bit(i)
GetBit(b, i) == b.bits[i]

\* the challenge of a default-constructed instance: buf128_t zero
NoChallenge ==
    [bits |-> [i \in Rows |-> FALSE],
     pre |-> [Q |-> DefaultPoint, label |-> "", c0 |-> [i \in Rows |-> NoCt],
              c1 |-> [i \in Rows |-> NoCt], X0 |-> [i \in Rows |-> DefaultPoint],
              X1 |-> [i \in Rows |-> DefaultPoint]]]

\* ----------------------------------------------------- single-value engine
\* ec_pve_t() : L, Q, b, x_rows[kappa], r[kappa], c[kappa]
NewPve ==
    [L |-> "", Q |-> DefaultPoint, b |-> NoChallenge,
     x_rows |-> [i \in Rows |-> 0], r |-> [i \in Rows |-> 0],
     c |-> [i \in Rows |-> NoCt]]

\* mutant: the scalar of a row with b[i] = 0 is not cleared
ec_pve_encrypt_keyed_NoClear(ek0, ek1, label, x, r0, r1) ==
    LET bn_x == x % Order
        Q == MulG(bn_x)
        inner_label == GenPVELabelWithPoint(label, Q)
        x0 == [i \in Rows |-> DrbgGenBn(<<r0[i]>>)]
        x1 == [i \in Rows |-> (bn_x - x0[i] + Order) % Order]
        c0 == [i \in Rows |->
                 BasePkeEncrypt(ek0[i], inner_label, ToBin(x0[i]), DrbgGen(<<r0[i]>>, 1))]
        X0 == [i \in Rows |-> MulG(x0[i])]
        c1 == [i \in Rows |->
                 BasePkeEncrypt(ek1[i], inner_label, ToBin(x1[i]), DrbgGen(<<r1[i]>>, 0))]
        X1 == [i \in Rows |-> PointSub(Q, X0[i])]
        b == RoHashString(Q, label, c0, c1, X0, X1)
    IN [L |-> label, Q |-> Q, b |-> b,
        x_rows |-> x1,
        r |-> [i \in Rows |-> IF GetBit(b, i) THEN r1[i] ELSE r0[i]],
        c |-> [i \in Rows |-> IF GetBit(b, i) THEN c0[i] ELSE c1[i]]]
\* ec_pve_t::encrypt; r0, r1 are the seeds gen_random returns for each row,
\* ek0[i], ek1[i] the key under which the KEM answers the two base encryptions
\* of row i
ec_pve_encrypt_keyed(ek0, ek1, label, x, r0, r1) ==
    LET bn_x == x % Order
        Q == MulG(bn_x)
        inner_label == GenPVELabelWithPoint(label, Q)
        x0 == [i \in Rows |-> DrbgGenBn(<<r0[i]>>)]
        rho0 == [i \in Rows |-> DrbgGen(<<r0[i]>>, 1)]
        x1 == [i \in Rows |-> (bn_x - x0[i] + Order) % Order]
        rho1 == [i \in Rows |-> DrbgGen(<<r1[i]>>, 0)]
        c0 == [i \in Rows |-> BasePkeEncrypt(ek0[i], inner_label, ToBin(x0[i]), rho0[i])]
        X0 == [i \in Rows |-> MulG(x0[i])]
        c1 == [i \in Rows |-> BasePkeEncrypt(ek1[i], inner_label, ToBin(x1[i]), rho1[i])]
        X1 == [i \in Rows |-> PointSub(Q, X0[i])]
        b == RoHashString(Q, label, c0, c1, X0, X1)
    IN [L |-> label, Q |-> Q, b |-> b,
        x_rows |-> [i \in Rows |-> IF GetBit(b, i) THEN x1[i] ELSE 0],
        r |-> [i \in Rows |-> IF GetBit(b, i) THEN r1[i] ELSE r0[i]],
        c |-> [i \in Rows |-> IF GetBit(b, i) THEN c0[i] ELSE c1[i]]]
\* ec_pve_t::encrypt with one key ek for every base encryption
ec_pve_encrypt(ek, label, x, r0, r1) ==
    ec_pve_encrypt_keyed([i \in Rows |-> ek], [i \in Rows |-> ek], label, x, r0, r1)

\* ec_pve_t::verify after its argument checks: the rows are recomputed and
\* hashed; self is the instance after the call (the method is const); eks[i] is
\* the key under which the KEM answers the base encryption of row i
ec_pve_verify_rows_keyed(p, eks, Q, label) ==
    LET inner_label == GenPVELabelWithPoint(label, Q)
        bi(i) == GetBit(p.b, i)
        xi == [i \in Rows |-> IF bi(i) THEN p.x_rows[i] ELSE DrbgGenBn(<<p.r[i]>>)]
        rho == [i \in Rows |-> DrbgGen(<<p.r[i]>>, IF bi(i) THEN 0 ELSE 1)]
        \* before the swap
        X0a == [i \in Rows |-> MulG(xi[i])]
        X1a == [i \in Rows |-> PointSub(Q, X0a[i])]
        c0a == [i \in Rows |-> BasePkeEncrypt(eks[i], inner_label, ToBin(xi[i]), rho[i])]
        c1a == [i \in Rows |-> p.c[i]]
        \* if (bi) swap
        X0 == [i \in Rows |-> IF bi(i) THEN X1a[i] ELSE X0a[i]]
        X1 == [i \in Rows |-> IF bi(i) THEN X0a[i] ELSE X1a[i]]
        c0 == [i \in Rows |-> IF bi(i) THEN c1a[i] ELSE c0a[i]]
        c1 == [i \in Rows |-> IF bi(i) THEN c0a[i] ELSE c1a[i]]
        b_tag == RoHashString(Q, label, c0, c1, X0, X1)
    IN IF b_tag # p.b THEN [rv |-> E_CRYPTO, msg |-> "b' != b", self |-> p]
       ELSE [rv |-> SUCCESS, msg |-> "", self |-> p]
\* the same with one key ek for every row
ec_pve_verify_rows(p, ek, Q, label) ==
    ec_pve_verify_rows_keyed(p, [i \in Rows |-> ek], Q, label)

\* mutant: the supplied Q and label are never compared with the stored ones
ec_pve_verify_unchecked(p, ek, Q, label) == ec_pve_verify_rows(p, ek, p.Q, p.L)

\* ec_pve_t::verify
ec_pve_verify(p, ek, Q, label) ==
    IF CurveCheck(Q) # SUCCESS THEN [rv |-> CurveCheck(Q), msg |-> "check Q failed", self |-> p]
    ELSE IF Q # p.Q THEN [rv |-> E_CRYPTO, msg |-> "public key (Q) mismatch", self |-> p]
    ELSE IF label # p.L THEN [rv |-> E_CRYPTO, msg |-> "label mismatch", self |-> p]
    ELSE ec_pve_verify_rows(p, ek, Q, label)

\* mutant: the two halves are subtracted instead of added
ec_pve_restore_Sub(p, row_index, decrypted_x_buf) ==
    LET bi == GetBit(p.b, row_index)
        x_bi_bar == FromBin(decrypted_x_buf)
        x_bi == IF bi THEN p.x_rows[row_index] ELSE DrbgGenBn(<<p.r[row_index]>>)
        x_value == (x_bi_bar - x_bi + Order) % Order
    IN IF MulG(x_value) # p.Q THEN [rv |-> E_CRYPTO, x_value |-> 0]
       ELSE [rv |-> SUCCESS, x_value |-> x_value]
\* mutant: the reconstructed value is not compared with Q
ec_pve_restore_NoCheck(p, row_index, decrypted_x_buf) ==
    LET bi == GetBit(p.b, row_index)
        x_bi_bar == FromBin(decrypted_x_buf)
        x_bi == IF bi THEN p.x_rows[row_index] ELSE DrbgGenBn(<<p.r[row_index]>>)
    IN [rv |-> SUCCESS, x_value |-> (x_bi_bar + x_bi) % Order]

\* ec_pve_t::restore_from_decrypted
ec_pve_restore_from_decrypted(p, row_index, decrypted_x_buf) ==
    LET bi == GetBit(p.b, row_index)
        x_bi_bar == FromBin(decrypted_x_buf)
        x_bi == IF bi THEN p.x_rows[row_index] ELSE DrbgGenBn(<<p.r[row_index]>>)
        x_value == (x_bi_bar + x_bi) % Order
    IN IF MulG(x_value) # p.Q THEN [rv |-> E_CRYPTO, x_value |-> 0]
       ELSE [rv |-> SUCCESS, x_value |-> x_value]

\* mutant: the result of restore_from_decrypted is not looked at
ec_pve_decrypt_rows_Unchecked(p, dk, inner_label, i, opened) ==
    LET d == BasePkeDecrypt(dk, inner_label, p.c[i])
        res == ec_pve_restore_from_decrypted(p, i, d.plain)
    IN IF d.rv # SUCCESS
          THEN [rv |-> d.rv, x_out |-> 0, opened |-> Append(opened, i), self |-> p]
       ELSE [rv |-> SUCCESS, x_out |-> res.x_value, opened |-> Append(opened, i),
             self |-> p]
\* mutant: a row that does not reconstruct is wiped in the instance
RECURSIVE ec_pve_decrypt_rows_Wiping(_, _, _, _, _)
ec_pve_decrypt_rows_Wiping(p, dk, inner_label, i, opened) ==
    IF i = Kappa THEN [rv |-> E_CRYPTO, x_out |-> 0, opened |-> opened, self |-> p]
    ELSE LET d == BasePkeDecrypt(dk, inner_label, p.c[i])
             res == ec_pve_restore_from_decrypted(p, i, d.plain)
         IN IF d.rv # SUCCESS
               THEN [rv |-> d.rv, x_out |-> 0, opened |-> Append(opened, i), self |-> p]
            ELSE IF res.rv = SUCCESS
               THEN [rv |-> SUCCESS, x_out |-> res.x_value, opened |-> Append(opened, i),
                     self |-> p]
            ELSE ec_pve_decrypt_rows_Wiping([p EXCEPT !.x_rows[i] = 0], dk, inner_label,
                                            i + 1, Append(opened, i))

\* mutant: a row that does not reconstruct is attempted a second time
RECURSIVE ec_pve_decrypt_rows_Twice(_, _, _, _, _)
ec_pve_decrypt_rows_Twice(p, dk, inner_label, i, opened) ==
    IF i = Kappa THEN [rv |-> E_CRYPTO, x_out |-> 0, opened |-> opened, self |-> p]
    ELSE LET d == BasePkeDecrypt(dk, inner_label, p.c[i])
             res == ec_pve_restore_from_decrypted(p, i, d.plain)
         IN IF d.rv # SUCCESS
               THEN [rv |-> d.rv, x_out |-> 0, opened |-> Append(opened, i), self |-> p]
            ELSE IF res.rv = SUCCESS
               THEN [rv |-> SUCCESS, x_out |-> res.x_value, opened |-> Append(opened, i),
                     self |-> p]
            ELSE ec_pve_decrypt_rows_Twice(p, dk, inner_label, i + 1,
                                           Append(Append(opened, i), i))

\* mutant: the error of base_pke.decrypt is dropped
RECURSIVE ec_pve_decrypt_rows_DropRv(_, _, _, _, _)
ec_pve_decrypt_rows_DropRv(p, dk, inner_label, i, opened) ==
    IF i = Kappa THEN [rv |-> E_CRYPTO, x_out |-> 0, opened |-> opened, self |-> p]
    ELSE LET d == BasePkeDecrypt(dk, inner_label, p.c[i])
             res == ec_pve_restore_from_decrypted(p, i, d.plain)
         IN IF d.rv # SUCCESS
               THEN [rv |-> SUCCESS, x_out |-> 0, opened |-> Append(opened, i), self |-> p]
            ELSE IF res.rv = SUCCESS
               THEN [rv |-> SUCCESS, x_out |-> res.x_value, opened |-> Append(opened, i),
                     self |-> p]
            ELSE ec_pve_decrypt_rows_DropRv(p, dk, inner_label, i + 1, Append(opened, i))

\* the row loop of ec_pve_t::decrypt, from row i on; opened lists the rows
\* whose ciphertext was handed to base_pke.decrypt, self is the instance after
\* the call (the method is const)
RECURSIVE ec_pve_decrypt_rows(_, _, _, _, _)
ec_pve_decrypt_rows(p, dk, inner_label, i, opened) ==
    IF i = Kappa THEN [rv |-> E_CRYPTO, x_out |-> 0, opened |-> opened, self |-> p]
    ELSE LET d == BasePkeDecrypt(dk, inner_label, p.c[i])
             res == ec_pve_restore_from_decrypted(p, i, d.plain)
         IN IF d.rv # SUCCESS
               THEN [rv |-> d.rv, x_out |-> 0, opened |-> Append(opened, i), self |-> p]
            ELSE IF res.rv = SUCCESS
               THEN [rv |-> SUCCESS, x_out |-> res.x_value, opened |-> Append(opened, i),
                     self |-> p]
            ELSE ec_pve_decrypt_rows(p, dk, inner_label, i + 1, Append(opened, i))

\* mutant: the rows are opened before verify is looked at
ec_pve_decrypt_VerifyLast(p, dk, ek, label, skip_verify) ==
    LET v == IF skip_verify THEN [rv |-> SUCCESS, msg |-> "", self |-> p]
             ELSE ec_pve_verify(p, ek, p.Q, label)
        d == ec_pve_decrypt_rows(p, dk, GenPVELabelWithPoint(label, p.Q), 0, <<>>)
    IN IF v.rv # SUCCESS THEN [rv |-> v.rv, x_out |-> 0, opened |-> d.opened, self |-> p]
       ELSE d
\* ec_pve_t::decrypt
ec_pve_decrypt(p, dk, ek, label, skip_verify) ==
    LET v == IF skip_verify THEN [rv |-> SUCCESS, msg |-> "", self |-> p]
             ELSE ec_pve_verify(p, ek, p.Q, label)
    IN IF v.rv # SUCCESS THEN [rv |-> v.rv, x_out |-> 0, opened |-> <<>>, self |-> p]
       ELSE ec_pve_decrypt_rows(p, dk, GenPVELabelWithPoint(label, p.Q), 0, <<>>)

\* ------------------------------------------------------------ batch engine
Elems(n) == 0 .. (n - 1)
\* bn_t::vector_to_bin(x, curve_size): n fixed-width scalars, one after another
VectorToBin(x, n) == [k \in 1 .. n |-> x[k - 1]]
\* bn_t::vector_from_bin(bin, n, size, q): n fixed-width chunks, each reduced mod q
VectorFromBin(bin, n) == [j \in Elems(n) |-> IF j + 1 <= Len(bin) THEN bin[j + 1] % Order ELSE 0]
\* vector_from_bin(drbg.gen(n * (curve_size + SEC_P_STAT / 8)), ...) on a fresh DRBG
DrbgGenVec(seed, n) == [j \in Elems(n) |-> (SeedNum(seed) * (j + 2) + j) % Order]

NoCtBatch(n) == [NoCt EXCEPT !.aad = [label |-> "", Q |-> [j \in Elems(n) |-> DefaultPoint]]]
VecNum(X, n) == SumSeq([k \in 1 .. n |-> (k + 1) * X[k - 1].v])
RECURSIVE RowsNumBatch(_, _, _, _, _)
RowsNumBatch(i, c0, c1, X0, n) ==
    IF i = Kappa THEN 0
    ELSE (i + 1) * (CtNum(c0[i]) + 2 * CtNum(c1[i]) + VecNum(X0[i], n))
         + RowsNumBatch(i + 1, c0, c1, X0, n)
\* crypto::ro::hash_string(Q, label, c0, c1, X0, X1).bitlen(kappa), vectors of points
RoHashStringBatch(Q, label, c0, c1, X0, X1, n) ==
    LET fp == VecNum(Q, n) + (IF label = "backup-1" THEN 0 ELSE 1)
              + RowsNumBatch(0, c0, c1, X0, n)
    IN [bits |-> [i \in Rows |->
                    ((fp \div (2 ^ i)) + CtNum(c0[i]) + VecNum(X0[i], n)) % 2 = 1],
        pre |-> [Q |-> Q, label |-> label, c0 |-> c0, c1 |-> c1, X0 |-> X0, X1 |-> X1]]

\* ec_pve_batch_t(batch_count): n, L, Q(n), b, rows(kappa)
NewBatch(n) ==
    [n |-> n, L |-> "", Q |-> [j \in Elems(n) |-> DefaultPoint],
     b |-> [bits |-> [i \in Rows |-> FALSE],
            pre |-> [Q |-> [j \in Elems(n) |-> DefaultPoint], label |-> "",
                     c0 |-> [i \in Rows |-> NoCtBatch(n)],
                     c1 |-> [i \in Rows |-> NoCtBatch(n)],
                     X0 |-> [i \in Rows |-> [j \in Elems(n) |-> DefaultPoint]],
                     X1 |-> [i \in Rows |-> [j \in Elems(n) |-> DefaultPoint]]]],
     rows |-> [i \in Rows |-> [x_bin |-> <<>>, r |-> <<>>, c |-> NoCtBatch(n)]]]

\* ec_pve_batch_t::encrypt; r01, r02, r1 are the seeds gen_random returns per row
ec_pve_batch_encrypt(n, ek, label, xs, r01, r02, r1) ==
    LET x == [j \in Elems(n) |-> xs[j] % Order]
        Q == [j \in Elems(n) |-> MulG(x[j])]
        inner_label == GenPVELabelWithPoint(label, Q)
        x0 == [i \in Rows |-> DrbgGenVec(<<r01[i]>>, n)]
        rho0 == [i \in Rows |-> DrbgGen(<<r02[i]>>, 0)]
        rho1 == [i \in Rows |-> DrbgGen(<<r1[i]>>, 0)]
        x1 == [i \in Rows |-> [j \in Elems(n) |-> (x[j] - x0[i][j] + Order) % Order]]
        X0 == [i \in Rows |-> [j \in Elems(n) |-> MulG(x0[i][j])]]
        X1 == [i \in Rows |-> [j \in Elems(n) |-> PointSub(Q[j], X0[i][j])]]
        x1_bin == [i \in Rows |-> VectorToBin(x1[i], n)]
        c0 == [i \in Rows |-> BasePkeEncrypt(ek, inner_label, <<r01[i]>>, rho0[i])]
        c1 == [i \in Rows |-> BasePkeEncrypt(ek, inner_label, x1_bin[i], rho1[i])]
        b == RoHashStringBatch(Q, label, c0, c1, X0, X1, n)
    IN [n |-> n, L |-> label, Q |-> Q, b |-> b,
        rows |-> [i \in Rows |->
            [x_bin |-> IF GetBit(b, i) THEN x1_bin[i] ELSE <<>>,
             r |-> IF GetBit(b, i) THEN <<r1[i]>> ELSE <<r01[i], r02[i]>>,
             c |-> IF GetBit(b, i) THEN c0[i] ELSE c1[i]]]]

\* ec_pve_batch_t::verify; Q is a vector indexed from 0
ec_pve_batch_verify(p, ek, Q, label) ==
    LET n == p.n IN
    IF DOMAIN Q # Elems(n) THEN [rv |-> E_BADARG, msg |-> "", self |-> p]
    ELSE IF \E j \in Elems(n) : CurveCheck(Q[j]) # SUCCESS
        THEN [rv |-> E_CRYPTO, msg |-> "check Q[i] failed", self |-> p]
    ELSE IF Q # p.Q THEN [rv |-> E_CRYPTO, msg |-> "public keys (Qs) mismatch", self |-> p]
    ELSE IF label # p.L THEN [rv |-> E_CRYPTO, msg |-> "", self |-> p]
    ELSE
    LET inner_label == GenPVELabelWithPoint(label, Q)
        bi(i) == GetBit(p.b, i)
        row(i) == p.rows[i]
        bad_size(i) == IF bi(i) THEN Len(row(i).r) # 1 ELSE Len(row(i).r) # 2
        xi == [i \in Rows |-> IF bi(i) THEN VectorFromBin(row(i).x_bin, n)
                              ELSE DrbgGenVec(<<row(i).r[1]>>, n)]
        c0 == [i \in Rows |-> IF bi(i) THEN row(i).c
                 ELSE BasePkeEncrypt(ek, inner_label, <<row(i).r[1]>>,
                                     DrbgGen(<<row(i).r[2]>>, 0))]
        c1 == [i \in Rows |-> IF bi(i)
                 THEN BasePkeEncrypt(ek, inner_label, VectorToBin(xi[i], n),
                                     DrbgGen(row(i).r, 0))
                 ELSE row(i).c]
        X0a == [i \in Rows |-> [j \in Elems(n) |-> MulG(xi[i][j])]]
        X1a == [i \in Rows |-> [j \in Elems(n) |-> PointSub(Q[j], X0a[i][j])]]
        X0 == [i \in Rows |-> IF bi(i) THEN X1a[i] ELSE X0a[i]]
        X1 == [i \in Rows |-> IF bi(i) THEN X0a[i] ELSE X1a[i]]
    IN IF \E i \in Rows : bad_size(i) THEN [rv |-> E_CRYPTO, msg |-> "", self |-> p]
       ELSE IF RoHashStringBatch(Q, label, c0, c1, X0, X1, n) # p.b
           THEN [rv |-> E_CRYPTO, msg |-> "", self |-> p]
       ELSE [rv |-> SUCCESS, msg |-> "", self |-> p]

\* mutant: the loop returns after the first element that matches
batch_restore_elems_First(p, x0, x1, j, x) ==
    LET xj == (x0[j] + x1[j]) % Order
        x2 == [k \in Elems(p.n) |-> (x0[k] + x1[k]) % Order]
    IN IF p.Q[j] # MulG(xj) THEN [rv |-> E_CRYPTO, x |-> [x EXCEPT ![j] = xj]]
       ELSE [rv |-> SUCCESS, x |-> x2]

\* the element loop of ec_pve_batch_t::restore_from_decrypted, from element j on:
\* x[j] is written before Q[j] is compared
RECURSIVE batch_restore_elems(_, _, _, _, _)
batch_restore_elems(p, x0, x1, j, x) ==
    IF j = p.n THEN [rv |-> SUCCESS, x |-> x]
    ELSE LET xj == (x0[j] + x1[j]) % Order
             x2 == [x EXCEPT ![j] = xj]
         IN IF p.Q[j] # MulG(xj) THEN [rv |-> E_CRYPTO, x |-> x2]
            ELSE batch_restore_elems(p, x0, x1, j + 1, x2)

\* mutant: the seed of x0 is taken from the second half of r (skip instead of take)
ec_pve_batch_restore_Skip(p, row_index, decrypted_x_buf, x) ==
    LET bi == GetBit(p.b, row_index)
        row == p.rows[row_index]
        x1_bin == IF bi THEN row.x_bin ELSE decrypted_x_buf
        r01 == IF bi THEN decrypted_x_buf ELSE <<row.r[2]>>
    IN IF ~bi /\ Len(row.r) # 2 THEN [rv |-> E_CRYPTO, x |-> x]
       ELSE batch_restore_elems(p, DrbgGenVec(r01, p.n), VectorFromBin(x1_bin, p.n), 0, x)

\* ec_pve_batch_t::restore_from_decrypted, for 0 <= row_index < kappa
ec_pve_batch_restore_from_decrypted(p, row_index, decrypted_x_buf, x) ==
    IF row_index > Kappa THEN [rv |-> E_BADARG, x |-> x]
    ELSE
    LET bi == GetBit(p.b, row_index)
        row == p.rows[row_index]
        x1_bin == IF bi THEN row.x_bin ELSE decrypted_x_buf
        r01 == IF bi THEN decrypted_x_buf ELSE <<row.r[1]>>
    IN IF ~bi /\ Len(row.r) # 2 THEN [rv |-> E_CRYPTO, x |-> x]
       ELSE batch_restore_elems(p, DrbgGenVec(r01, p.n), VectorFromBin(x1_bin, p.n), 0, x)

\* the row loop of ec_pve_batch_t::decrypt, from row i on
RECURSIVE ec_pve_batch_decrypt_rows(_, _, _, _, _, _)
ec_pve_batch_decrypt_rows(p, dk, inner_label, i, xs, opened) ==
    IF i = Kappa THEN [rv |-> E_CRYPTO, xs |-> <<>>, opened |-> opened, self |-> p]
    ELSE LET d == BasePkeDecrypt(dk, inner_label, p.rows[i].c)
             res == ec_pve_batch_restore_from_decrypted(p, i, d.plain, xs)
         IN IF d.rv # SUCCESS
               THEN [rv |-> d.rv, xs |-> xs, opened |-> Append(opened, i), self |-> p]
            ELSE IF res.rv = SUCCESS
               THEN [rv |-> SUCCESS, xs |-> res.x, opened |-> Append(opened, i), self |-> p]
            ELSE ec_pve_batch_decrypt_rows(p, dk, inner_label, i + 1, res.x,
                                           Append(opened, i))

\* ec_pve_batch_t::decrypt
ec_pve_batch_decrypt(p, dk, ek, label, skip_verify) ==
    LET xs0 == [j \in Elems(p.n) |-> 0]
        v == IF skip_verify THEN [rv |-> SUCCESS, msg |-> "", self |-> p]
             ELSE ec_pve_batch_verify(p, ek, p.Q, label)
    IN IF v.rv # SUCCESS THEN [rv |-> v.rv, xs |-> xs0, opened |-> <<>>, self |-> p]
       ELSE IF label # p.L THEN [rv |-> E_CRYPTO, xs |-> xs0, opened |-> <<>>, self |-> p]
       ELSE ec_pve_batch_decrypt_rows(p, dk, GenPVELabelWithPoint(label, p.Q), 0, xs0, <<>>)

\* ------------------------------------------------------------ state machine
VARIABLES
    engine,     \* which class the object under test is: "single" or "batch"
    pve,        \* the ec_pve_t instance
    batch,      \* the ec_pve_batch_t instance
    enc,        \* the arguments of the encrypt call that populated the instance
    orig,       \* the instance as encrypt left it
    tampered,   \* which part of the bundle was changed before it was loaded again
    last        \* the last call: its arguments and what it returned

\* the Go binding (api/mpc, internal/cgobinding)
VARIABLES
    handles,      \* the PVE handles NewPVE returned: their kem and ctx
    instanceReg,  \* cgobinding.instanceReg: ctx -> KEM implementation
    g_ctx,        \* the thread_local g_ctx of the C shim, one slot per OS thread
    gor,          \* the goroutines: where each is in its Encrypt/Verify/Decrypt call
    ret,          \* what the last call of each goroutine returned
    store         \* the ciphertext the first Encrypt returned

\* the quorum engine (ec_pve_ac_t)
VARIABLES
    acEnc,        \* the quorum instance, its access structure and what was encrypted
    acShares,     \* the shares party_decrypt_row returned so far, and their row
    acLast        \* the last quorum call and what it returned

\* the serialized bundle (coinbase::convert / coinbase::deser)
VARIABLES
    serPc,        \* how far the bundle went: new, enc, ser, deser, reser
    serSrc,       \* the kind of instance and the instance encrypt produced
    serWire,      \* the bytes convert wrote for it
    serGot,       \* what deser made of these bytes
    serWire2      \* the bytes convert wrote for the deserialized instance

\* registration and direct use of the native entry points
VARIABLES
    reg,          \* per goroutine: how far its RegisterKEMInstance call went
    bindRet       \* the last call that went to the native layer and its result

\* one party's mpc_net_context_t of the local test network
VARIABLES
    is_abort,     \* mpc_net_context_t::is_abort
    queue,        \* per sender: the messages waiting in in[sender]
    mutex,        \* the thread holding channel_sync.mutex
    notified,     \* the threads in channel_sync.cond.wait that were notified
    rx            \* per receiving thread: its receive_all call

\* the two mpc_signer processes (party 0 leads, party 1 follows)
VARIABLES
    messenger,       \* per party: state.messenger != nil
    keyShareLoaded,  \* per party: state.keyShareLoaded
    keyShare,        \* per party: state.keyShare
    curve,           \* per party: state.curve != nil
    lastErr,         \* per party: state.lastErr
    runs,            \* key generations the two parties completed together
    req,             \* the leader's /dkg and /sign_digest handlers
    bg               \* the follower's background goroutines

\* ec_pve_batch_t::restore_from_decrypted called with any row index
VARIABLES
    rst           \* the instance, the arguments of the call and what it did

pveVars == <<engine, pve, batch, enc, orig, tampered, last>>
goVars == <<handles, instanceReg, g_ctx, gor, ret, store>>
acVars == <<acEnc, acShares, acLast>>
serVars == <<serPc, serSrc, serWire, serGot, serWire2>>
bindVars == <<reg, bindRet>>
rstVars == <<rst>>
netVars == <<is_abort, queue, mutex, notified, rx>>
sgVars == <<messenger, keyShareLoaded, keyShare, curve, lastErr, runs, req, bg>>
\* the variables of the other components, which the engine calls leave alone
notPve == <<goVars, acVars, serVars, bindVars, rstVars, sgVars, netVars>>
notGo == <<pveVars, acVars, serVars, bindVars, rstVars, sgVars, netVars>>
notAc == <<pveVars, goVars, serVars, bindVars, rstVars, sgVars, netVars>>
notSer == <<pveVars, goVars, acVars, bindVars, rstVars, sgVars, netVars>>
notBind == <<pveVars, acVars, serVars, handles, gor, ret, store, rstVars, sgVars, netVars>>
notRst == <<pveVars, goVars, acVars, serVars, bindVars, sgVars, netVars>>
notSg == <<pveVars, goVars, acVars, serVars, bindVars, rstVars, netVars>>
notNet == <<pveVars, goVars, acVars, serVars, bindVars, rstVars, sgVars>>
vars == <<pveVars, notPve>>

NoTamper == [part |-> "none", row |-> 0]
Call(op, rv, msg, out, opened, key, label, Q, skip) ==
    [op |-> op, rv |-> rv, msg |-> msg, out |-> out, opened |-> opened, key |-> key,
     label |-> label, Q |-> Q, skip |-> skip, again |-> last.op = op]

\* Calls explored on a loaded instance: any one call, then repetitions of that
\* call. Longer sequences reach no other instance, since every call leaves the
\* instance as it found it (checked on every step below).
Loaded == last.op \in {"new", "encrypt", "deser"}
Again(op, key, label, Q, skip) ==
    /\ last.op = op /\ last.key = key /\ last.label = label
    /\ last.Q = Q /\ last.skip = skip

InitPve ==
    /\ engine \in {"single", "batch"}
    /\ pve = NewPve
    /\ \E n \in BatchSizes : batch = NewBatch(n) /\ (engine = "single" => n = 1)
    /\ enc = [done |-> FALSE, ek |-> "", label |-> "", x |-> <<>>]
    /\ orig = IF engine = "single" THEN pve ELSE batch
    /\ tampered = NoTamper
    /\ last = [op |-> "new", rv |-> SUCCESS, msg |-> "", out |-> <<>>, opened |-> <<>>,
               key |-> "", label |-> "", Q |-> <<>>, skip |-> FALSE, again |-> FALSE]

\* pve.encrypt(&ek, label, curve, x) on a fresh ec_pve_t
EncryptSingle ==
    /\ engine = "single" /\ ~enc.done
    /\ \E ek \in KeyIds, label \in Labels, x \in XInputs, r0, r1 \in [Rows -> Seeds] :
         /\ pve' = ec_pve_encrypt(ek, label, x, r0, r1)
         /\ enc' = [done |-> TRUE, ek |-> ek, label |-> label, x |-> x]
         /\ last' = Call("encrypt", SUCCESS, "", <<>>, <<>>, ek, label, pve'.Q, FALSE)
    /\ orig' = pve'
    /\ UNCHANGED <<engine, batch, tampered>>
    /\ UNCHANGED notPve

\* the points a caller hands to verify: the stored one, the committed one,
\* another point of the curve, a point off the curve
QArgs == {pve.Q, orig.Q, Point(orig.Q.v + 1), OffCurve(orig.Q.v)}

\* pve.verify(&ek, Q, label)
VerifySingle ==
    /\ engine = "single"
    /\ \E ek \in KeyIds, label \in Labels, Q \in QArgs :
         /\ Loaded \/ Again("verify", ek, label, Q, FALSE)
         /\ LET v == ec_pve_verify(pve, ek, Q, label)
            IN /\ last' = Call("verify", v.rv, v.msg, <<>>, <<>>, ek, label, Q, FALSE)
               /\ pve' = v.self
    /\ UNCHANGED <<engine, batch, enc, orig, tampered>>
    /\ UNCHANGED notPve

\* pve.decrypt(&dk, &ek, label, curve, x, skip_verify); ek is the recipient's
DecryptSingle ==
    /\ engine = "single"
    /\ \E dk \in KeyIds, label \in Labels, skip \in BOOLEAN :
         /\ Loaded \/ Again("decrypt", dk, label, pve.Q, skip)
         /\ LET ek == IF enc.done THEN enc.ek ELSE dk
                d == ec_pve_decrypt(pve, dk, ek, label, skip)
            IN /\ last' = Call("decrypt", d.rv, "", d.x_out, d.opened, dk, label, pve.Q, skip)
               /\ pve' = d.self
    /\ UNCHANGED <<engine, batch, enc, orig, tampered>>
    /\ UNCHANGED notPve

OtherLabel(l) == CHOOSE m \in Labels : m # l
OtherKey(k) == CHOOSE m \in KeyIds : m # k
OtherSeed(r) == CHOOSE m \in Seeds : m # r

\* deser(bundle, pve) of a bundle that differs from the encrypted one in one part
\* (ec_pve_t::convert reads Q, L, b, then x_rows[i], r[i], c[i] for each row);
\* "x_all" changes the retained scalar of every row
TamperSingle ==
    /\ engine = "single" /\ last.op = "encrypt" /\ tampered = NoTamper
    /\ \E part \in {"Q", "L", "b", "x", "r", "c_key", "c_pt", "x_all"},
          i \in Rows :
         /\ part \in {"Q", "L", "x_all"} => i = 0
         /\ tampered' = [part |-> part, row |-> i]
         /\ pve' = CASE part = "Q" -> [pve EXCEPT !.Q = Point(@.v + 1)]
                     [] part = "x_all" ->
                          [pve EXCEPT !.x_rows = [k \in Rows |-> (@[k] + 1) % Order]]
                     [] part = "L" -> [pve EXCEPT !.L = OtherLabel(@)]
                     [] part = "b" -> [pve EXCEPT !.b.bits[i] = ~@]
                     [] part = "x" -> [pve EXCEPT !.x_rows[i] = (@ + 1) % Order]
                     [] part = "r" -> [pve EXCEPT !.r[i] = OtherSeed(@)]
                     [] part = "c_key" -> [pve EXCEPT !.c[i].ek = OtherKey(@)]
                     [] part = "c_pt" ->
                          [pve EXCEPT !.c[i].pt = ToBin((FromBin(@) + 1) % Order)]
    /\ last' = Call("deser", SUCCESS, "", <<>>, <<>>, "", "", pve'.Q, FALSE)
    /\ UNCHANGED <<engine, batch, enc, orig>>
    /\ UNCHANGED notPve

\* pve_batch.encrypt(&ek, label, curve, xs) on a fresh ec_pve_batch_t(n)
EncryptBatch ==
    /\ engine = "batch" /\ ~enc.done
    /\ \E ek \in KeyIds, label \in Labels, xs \in [Elems(batch.n) -> BatchXInputs],
          r01 \in [Rows -> Seeds], r02 \in [Rows -> {2}], r1 \in [Rows -> {1}] :
         /\ batch' = ec_pve_batch_encrypt(batch.n, ek, label, xs, r01, r02, r1)
         /\ enc' = [done |-> TRUE, ek |-> ek, label |-> label, x |-> xs]
         /\ last' = Call("encrypt", SUCCESS, "", <<>>, <<>>, ek, label, batch'.Q, FALSE)
    /\ orig' = batch'
    /\ UNCHANGED <<engine, pve, tampered>>
    /\ UNCHANGED notPve

\* the vectors a caller hands to the batch verify: the stored one, the committed
\* one, one with another last point, one with a last point off the curve, one
\* that is too long
BatchQArgs ==
    LET k == batch.n - 1
    IN {batch.Q, orig.Q, [orig.Q EXCEPT ![k] = Point(@.v + 1)],
        [orig.Q EXCEPT ![k] = OffCurve(@.v)],
        [j \in Elems(batch.n + 1) |-> IF j <= k THEN orig.Q[j] ELSE orig.Q[k]]}

\* pve_batch.verify(&ek, Qs, label)
VerifyBatch ==
    /\ engine = "batch"
    /\ \E ek \in KeyIds, label \in Labels, Q \in BatchQArgs :
         /\ Loaded \/ Again("verify", ek, label, Q, FALSE)
         /\ LET v == ec_pve_batch_verify(batch, ek, Q, label)
            IN /\ last' = Call("verify", v.rv, v.msg, <<>>, <<>>, ek, label, Q, FALSE)
               /\ batch' = v.self
    /\ UNCHANGED <<engine, pve, enc, orig, tampered>>
    /\ UNCHANGED notPve

\* pve_batch.decrypt(&dk, &ek, label, curve, xs, skip_verify)
DecryptBatch ==
    /\ engine = "batch"
    /\ \E dk \in KeyIds, label \in Labels, skip \in BOOLEAN :
         /\ Loaded \/ Again("decrypt", dk, label, batch.Q, skip)
         /\ LET ek == IF enc.done THEN enc.ek ELSE dk
                d == ec_pve_batch_decrypt(batch, dk, ek, label, skip)
            IN /\ last' = Call("decrypt", d.rv, "", d.xs, d.opened, dk, label, batch.Q, skip)
               /\ batch' = d.self
    /\ UNCHANGED <<engine, pve, enc, orig, tampered>>
    /\ UNCHANGED notPve

\* deser(bundle, pve_batch) of a bundle that differs from the encrypted one in
\* one part (ec_pve_batch_t::convert reads Q, L, b, then x_bin, r, c per row)
TamperBatch ==
    /\ engine = "batch" /\ last.op = "encrypt" /\ tampered = NoTamper
    /\ \E part \in {"Q", "L", "b", "x", "r", "c_key", "c_pt", "x_all"},
          i \in Rows :
         LET k == batch.n - 1
             bump(buf) == IF buf = <<>> THEN <<1>>
                          ELSE [buf EXCEPT ![Len(buf)] = (@ + 1) % Order]
         IN
         /\ part \in {"Q", "L", "x_all"} => i = 0
         /\ tampered' = [part |-> part, row |-> i]
         /\ batch' = CASE part = "Q" -> [batch EXCEPT !.Q[k] = Point(@.v + 1)]
                       [] part = "x_all" ->
                            [batch EXCEPT !.rows =
                                [m \in Rows |->
                                    [batch.rows[m] EXCEPT !.x_bin = bump(@)]]]
                       [] part = "L" -> [batch EXCEPT !.L = OtherLabel(@)]
                       [] part = "b" -> [batch EXCEPT !.b.bits[i] = ~@]
                       [] part = "x" -> [batch EXCEPT !.rows[i].x_bin = bump(@)]
                       [] part = "r" -> [batch EXCEPT !.rows[i].r[1] = OtherSeed(@)]
                       [] part = "c_key" -> [batch EXCEPT !.rows[i].c.ek = OtherKey(@)]
                       [] part = "c_pt" -> [batch EXCEPT !.rows[i].c.pt = bump(@)]
    /\ last' = Call("deser", SUCCESS, "", <<>>, <<>>, "", "", batch'.Q, FALSE)
    /\ UNCHANGED <<engine, pve, enc, orig>>
    /\ UNCHANGED notPve

\* ------------------------------------------------------------- Go binding
\* the number of Go calls explored, all goroutines together
MaxCalls == 3
Handles == {1, 2}
Ctxs == {1, 2}
NullCtx == 0
Threads == {1, 2}
Goroutines == {1, 2}
GoOps == {"encrypt", "verify", "decrypt"}
\* the KEM implementations handed to NewPVE: rsaGoKEM parses the key bytes it
\* is given and returns an error for bytes that are no RSA key; testXorKEM
\* works with any key bytes
Kems == {"rsa", "xor"}
NoKem == "none"
\* the key bytes "kA" are an RSA key, the key bytes "kB" are not
\* (KEM.Encapsulate / KEM.Decapsulate of implementation m on key bytes k:
\* what m does with k, BadKey when m returns an error)
KemKey(m, k) ==
    CASE m = "rsa" /\ k = "kA" -> "rsa:kA"
      [] m = "xor" /\ k = "kA" -> "xor:kA"
      [] m = "xor" /\ k = "kB" -> "xor:kB"
      [] OTHER -> BadKey

\* the request fields of the Go calls
GoLabel == "backup-1"
GoX == 1
GoR0 == [i \in Rows |-> 1]
GoR1 == [i \in Rows |-> 2]

NoHandle == [kem |-> NoKem, ctx |-> NullCtx]
NoStore == [set |-> FALSE, b |-> NewPve]
IdleGor == [pc |-> "idle", h |-> 0, op |-> "", thr |-> 0, on |-> 0, key |-> "",
            label |-> "", b |-> NewPve, cbs |-> << >>, shared |-> FALSE, calls |-> 0]
NoRet == [op |-> "", h |-> 0, key |-> "", label |-> "", b |-> NewPve, cbs |-> << >>,
          shared |-> FALSE, rv |-> SUCCESS, out |-> NewPve]

\* no goroutine has called anything
GoIdle ==
    /\ handles = [h \in Handles |-> NoHandle]
    /\ instanceReg = [c \in Ctxs |-> NoKem]
    /\ g_ctx = [t \in Threads |-> NullCtx]
    /\ gor = [g \in Goroutines |-> IdleGor]
    /\ ret = [g \in Goroutines |-> NoRet]
    /\ store = NoStore

\* mutant: g_ctx is one variable of the process
CtxSlot_Global(t) == 1
\* static thread_local void* g_ctx: the slot thread t reads and writes
CtxSlot(t) == t

\* mutant: the goroutine is not locked to its thread, the native call runs on
\* any thread
CallThreads_Unlocked(t) == Threads
\* runtime.LockOSThread(): the cgo calls that follow run on the thread t the
\* goroutine was on
CallThreads(t) == {t}

\* cgobinding.RegisterKEMInstance(p): the ctx already registered for p, or a
\* newly allocated one
RegisterKEMInstance(p) ==
    LET found == {c \in Ctxs : instanceReg[c] = p}
        free == {c \in Ctxs : instanceReg[c] = NoKem}
    IN IF found # {} THEN CHOOSE c \in found : \A d \in found : c <= d
       ELSE CHOOSE c \in free : \A d \in free : c <= d

\* NewPVE(Config{KEM: kem})
NewPVE ==
    /\ \E h \in Handles, kem \in Kems :
         /\ handles[h] = NoHandle
         /\ \A k \in Handles : k < h => handles[k] # NoHandle
         /\ LET ctx == RegisterKEMInstance(kem)
            IN /\ instanceReg' = [instanceReg EXCEPT ![ctx] = kem]
               /\ handles' = [handles EXCEPT ![h] = [kem |-> kem, ctx |-> ctx]]
    /\ UNCHANGED <<g_ctx, gor, ret, store>>
    /\ UNCHANGED notGo

\* stub_kem_encapsulate / stub_kem_decapsulate on thread t, then the Go bridge:
\* the implementation that answers, NoKem when the stub or the bridge returns 1
Dispatch(t) ==
    IF g_ctx[CtxSlot(t)] = NullCtx THEN NoKem ELSE instanceReg[g_ctx[CtxSlot(t)]]

\* the keys under which the callbacks of a call were answered
EffKeys(cbs, key) == [k \in DOMAIN cbs |-> KemKey(cbs[k], key)]

\* the row loop of ec_pve_t::decrypt as far as the decapsulate callbacks
\* answered so far take it: dks[i + 1] is the key of the answer for row i
RECURSIVE pve_decrypt_rows(_, _, _, _)
pve_decrypt_rows(p, dks, inner_label, i) ==
    IF i = Kappa THEN [done |-> TRUE, rv |-> E_CRYPTO, out |-> 0]
    ELSE IF i >= Len(dks) THEN [done |-> FALSE, rv |-> SUCCESS, out |-> 0]
    ELSE LET d == BasePkeDecrypt(dks[i + 1], inner_label, p.c[i])
             res == ec_pve_restore_from_decrypted(p, i, d.plain)
         IN IF d.rv # SUCCESS THEN [done |-> TRUE, rv |-> d.rv, out |-> 0]
            ELSE IF res.rv = SUCCESS
                THEN [done |-> TRUE, rv |-> SUCCESS, out |-> res.x_value]
            ELSE pve_decrypt_rows(p, dks, inner_label, i + 1)

\* pve_encrypt(pub_key, x, label, curve, out): encrypt is void, the bundle is
\* returned with SUCCESS once the 2 * kappa base encryptions were made
pve_encrypt(key, label, cbs) ==
    LET eks == EffKeys(cbs, key)
    IN IF Len(cbs) < 2 * Kappa THEN [done |-> FALSE, rv |-> SUCCESS, out |-> NewPve]
       ELSE [done |-> TRUE, rv |-> SUCCESS,
             out |-> ec_pve_encrypt_keyed([i \in Rows |-> eks[2 * i + 1]],
                                          [i \in Rows |-> eks[2 * i + 2]],
                                          label, GoX, GoR0, GoR1)]

\* pve_verify(pub_key, pve_bundle, Q, label) with Q the point of the bundle
pve_verify(key, b, label, cbs) ==
    LET early == ec_pve_verify(b, key, b.Q, label)
    IN IF early.msg \in {"check Q failed", "public key (Q) mismatch", "label mismatch"}
          THEN [done |-> TRUE, rv |-> early.rv, out |-> NewPve]
       ELSE IF Len(cbs) < Kappa THEN [done |-> FALSE, rv |-> SUCCESS, out |-> NewPve]
       ELSE [done |-> TRUE, out |-> NewPve,
             rv |-> ec_pve_verify_rows_keyed(
                        b, [i \in Rows |-> EffKeys(cbs, key)[i + 1]], b.Q, label).rv]

\* pve_decrypt(prv_key, pve_bundle, label, curve, out_x): skip_verify = true
pve_decrypt(key, b, label, cbs) ==
    pve_decrypt_rows(b, EffKeys(cbs, key), GenPVELabelWithPoint(label, b.Q), 0)

\* the native call of goroutine record c, as far as its callbacks take it
Native(c) ==
    CASE c.op = "encrypt" -> pve_encrypt(c.key, c.label, c.cbs)
      [] c.op = "verify" -> pve_verify(c.key, c.b, c.label, c.cbs)
      [] c.op = "decrypt" -> pve_decrypt(c.key, c.b, c.label, c.cbs)

\* the calls made so far
CallsMade == SumSeq([g \in 1 .. Cardinality(Goroutines) |-> gor[g].calls])

\* PVE.Encrypt / PVE.Verify / PVE.Decrypt up to runtime.LockOSThread(): the
\* request is taken and the goroutine is wired to the thread it runs on, a
\* thread no other goroutine is wired to
GoCall(g) ==
    /\ gor[g].pc = "idle" /\ CallsMade < MaxCalls
    /\ \A h \in Handles : handles[h] # NoHandle
    /\ \E h \in Handles, op \in GoOps, key \in KeyIds, label \in {GoLabel},
          t \in Threads :
         /\ op # "encrypt" => store.set
         /\ \A g2 \in Goroutines : gor[g2].thr # t
         /\ gor' = [gor EXCEPT ![g] =
                [pc |-> "locked", h |-> h, op |-> op, thr |-> t, on |-> 0, key |-> key,
                 label |-> label, b |-> IF op = "encrypt" THEN NewPve ELSE store.b,
                 cbs |-> << >>, shared |-> FALSE, calls |-> @.calls + 1]]
    /\ UNCHANGED <<handles, instanceReg, g_ctx, ret, store>>
    /\ UNCHANGED notGo

\* p.activateCtx(): pve_activate_ctx(p.ctx) on the goroutine's thread; the
\* native call is entered next
ActivateCtx(g) ==
    /\ gor[g].pc = "locked"
    /\ g_ctx' = [g_ctx EXCEPT ![CtxSlot(gor[g].thr)] = handles[gor[g].h].ctx]
    /\ \E t \in CallThreads(gor[g].thr) :
         gor' = [gor EXCEPT ![g].pc = "native", ![g].on = t]
    /\ UNCHANGED <<handles, instanceReg, ret, store>>
    /\ UNCHANGED notGo

\* another goroutine is inside a verify or decrypt of the same handle and the
\* same ciphertext
Sharing(g) ==
    \E g2 \in Goroutines \ {g} :
        /\ gor[g2].pc = "native" /\ gor[g2].op \in {"verify", "decrypt"}
        /\ gor[g2].h = gor[g].h /\ gor[g2].b = gor[g].b

\* one KEM callback of the native call: the stub reads g_ctx of the thread the
\* call runs on, and the bridge hands the request to the implementation
\* registered under it
Callback(g) ==
    /\ gor[g].pc = "native"
    /\ ~Native(gor[g]).done
    /\ gor' = [gor EXCEPT ![g].cbs = Append(@, Dispatch(gor[g].on)),
                          ![g].shared = @ \/ Sharing(g)]
    /\ UNCHANGED <<handles, instanceReg, g_ctx, ret, store>>
    /\ UNCHANGED notGo

\* the native call returns and the deferred runtime.UnlockOSThread() runs
Return(g) ==
    /\ gor[g].pc = "native"
    /\ LET c == gor[g]
           n == Native(c)
       IN /\ n.done
          /\ ret' = [ret EXCEPT ![g] =
                 [op |-> c.op, h |-> c.h, key |-> c.key, label |-> c.label, b |-> c.b,
                  cbs |-> c.cbs, shared |-> c.shared, rv |-> n.rv, out |-> n.out]]
          /\ store' = IF c.op = "encrypt" /\ n.rv = SUCCESS /\ ~store.set
                         THEN [set |-> TRUE, b |-> n.out]
                      ELSE store
          /\ gor' = [gor EXCEPT ![g] = [IdleGor EXCEPT !.calls = c.calls]]
    /\ UNCHANGED <<handles, instanceReg, g_ctx>>
    /\ UNCHANGED notGo


\* -------------------------------------------------------- mpc_net_context_t
MaxMsgs == 2
E_GENERAL == "E_GENERAL"
RxThreads == {"t1", "t2"}
Senders == {"p1", "p2"}
NoThread == ""
NoRx == [pc |-> "idle", senders |-> {}, got |-> {}, rv |-> SUCCESS]
NetIdle ==
    /\ is_abort = FALSE
    /\ queue = [s \in Senders |-> 0]
    /\ mutex = NoThread
    /\ notified = {}
    /\ rx = [t \in RxThreads |-> NoRx]

\* the threads blocked in channel_sync.cond.wait(lock)
Waiting == {t \in RxThreads : rx[t].pc = "wait"}
\* mutant: only one of the waiting threads is woken
notify_one(W) == IF W = {} THEN {} ELSE {CHOOSE t \in W : TRUE}
\* channel_sync.cond.notify_all()
notify_all(W) == W

\* receive_all(senders, result) is called: result.clear(), received = 0, then the
\* thread goes for the mutex
RxCall ==
    /\ \E t \in RxThreads, snd \in (SUBSET Senders) \ {{}} :
         /\ rx[t].pc = "idle"
         /\ rx' = [rx EXCEPT ![t] = [pc |-> "lock", senders |-> snd, got |-> {},
                                     rv |-> SUCCESS]]
    /\ UNCHANGED <<is_abort, queue, mutex, notified>>
    /\ UNCHANGED notNet

\* std::unique_lock lock(channel_sync.mutex), and the same on the way out of
\* cond.wait
RxLock ==
    /\ \E t \in RxThreads :
         /\ rx[t].pc = "lock" /\ mutex = NoThread
         /\ mutex' = t
         /\ rx' = [rx EXCEPT ![t].pc = "loop"]
    /\ UNCHANGED <<is_abort, queue, notified>>
    /\ UNCHANGED notNet

\* one turn of `while (received < n || is_abort)` with the mutex held
RxLoopOf(t) ==
    /\ rx[t].pc = "loop" /\ mutex = t
    /\ LET n == Cardinality(rx[t].senders)
           received == Cardinality(rx[t].got)
           avail == {s \in rx[t].senders \ rx[t].got : queue[s] > 0}
       IN IF ~(received < n \/ is_abort)
             THEN /\ rx' = [rx EXCEPT ![t].pc = "done", ![t].rv = SUCCESS]
                  /\ mutex' = NoThread
                  /\ UNCHANGED queue
          ELSE IF is_abort
             THEN /\ rx' = [rx EXCEPT ![t].pc = "done", ![t].rv = E_GENERAL]
                  /\ mutex' = NoThread
                  /\ UNCHANGED queue
          ELSE IF avail = {}
             THEN /\ rx' = [rx EXCEPT ![t].pc = "wait"]
                  /\ mutex' = NoThread
                  /\ UNCHANGED queue
          ELSE /\ rx' = [rx EXCEPT ![t].got = @ \cup avail]
               /\ queue' = [s \in Senders |-> IF s \in avail THEN queue[s] - 1 ELSE queue[s]]
               /\ UNCHANGED mutex
    /\ UNCHANGED <<is_abort, notified>>
    /\ UNCHANGED notNet
RxLoop == \E t \in RxThreads : RxLoopOf(t)

\* a notified thread leaves cond.wait and goes for the mutex again
RxWakeOf(t) ==
    /\ rx[t].pc = "wait" /\ t \in notified
    /\ rx' = [rx EXCEPT ![t].pc = "lock"]
    /\ notified' = notified \ {t}
    /\ UNCHANGED <<is_abort, queue, mutex>>
    /\ UNCHANGED notNet
RxWake == \E t \in RxThreads : RxWakeOf(t)

\* cond.wait may also return without a notification
SpuriousWake ==
    /\ \E t \in RxThreads :
         /\ rx[t].pc = "wait" /\ t \notin notified
         /\ rx' = [rx EXCEPT ![t].pc = "lock"]
    /\ UNCHANGED <<is_abort, queue, mutex, notified>>
    /\ UNCHANGED notNet

\* receive_all has returned; the thread may call it again
RxReturn ==
    /\ \E t \in RxThreads :
         /\ rx[t].pc = "done"
         /\ rx' = [rx EXCEPT ![t] = NoRx]
    /\ UNCHANGED <<is_abort, queue, mutex, notified>>
    /\ UNCHANGED notNet

\* a peer's send(receiver, msg): the message is queued in in[sender] under the
\* receiver's channel_sync and the receivers are woken
Send ==
    /\ \E s \in Senders :
         /\ mutex = NoThread /\ queue[s] < MaxMsgs
         /\ queue' = [queue EXCEPT ![s] = @ + 1]
         /\ notified' = notified \cup notify_all(Waiting)
    /\ UNCHANGED <<is_abort, mutex, rx>>
    /\ UNCHANGED notNet

\* mpc_net_context_t::abort
Abort ==
    /\ mutex = NoThread /\ ~is_abort
    /\ is_abort' = TRUE
    /\ notified' = notified \cup notify_all(Waiting)
    /\ UNCHANGED <<queue, mutex, rx>>
    /\ UNCHANGED notNet

\* mpc_net_context_t::reset, which takes no lock: between two runs, when no
\* thread is inside the context
Reset ==
    /\ is_abort /\ mutex = NoThread
    /\ \A t \in RxThreads : rx[t].pc = "idle"
    /\ is_abort' = FALSE
    /\ queue' = [s \in Senders |-> 0]
    /\ UNCHANGED <<mutex, notified, rx>>
    /\ UNCHANGED notNet

\* ------------------------------------------------------------- mpc_signer
MaxReq == 2
MaxRuns == 2
Parties == {0, 1}
Leader == 0
Follower == 1
Reqs == 1 .. MaxReq
Gs == 1 .. MaxReq
NoKey == << >>
\* the share loadKeyShareIfPresent read from the key share file
FileKey == <<0>>
\* the share the n-th ECDSA2PCKeyGen run gives a party
RunKey(n) == <<n>>
NoReq == [pc |-> "idle", kind |-> "", resp |-> "", key |-> NoKey]
NoBg == [pc |-> "none", kind |-> "", from |-> "", key |-> NoKey]
SgIdle ==
    /\ messenger = [p \in Parties |-> FALSE]
    /\ keyShareLoaded = [p \in Parties |-> FALSE]
    /\ keyShare = [p \in Parties |-> NoKey]
    /\ curve = [p \in Parties |-> FALSE]
    /\ lastErr = [p \in Parties |-> ""]
    /\ runs = 0
    /\ req = [r \in Reqs |-> NoReq]
    /\ bg = [g \in Gs |-> NoBg]

Respond(r, resp) == [req EXCEPT ![r].pc = "done", ![r].resp = resp]
\* state.requireReady
requireReady(p) == IF messenger[p] THEN "" ELSE "messenger not ready"
\* the goroutine slot the next `go func()` of the follower runs in
FreeG == CHOOSE g \in Gs : bg[g].pc = "none" /\ \A h \in Gs : h < g => bg[h].pc # "none"
\* the follower's /internal/start_dkg and /internal/start_sign handlers: the
\* goroutines after the handler returned 200
start_handler(kind, from) ==
    IF kind = "dkg" /\ keyShareLoaded[Follower] THEN bg
    ELSE [bg EXCEPT ![FreeG] = [pc |-> "start", kind |-> kind, from |-> from, key |-> NoKey]]

\* buildMessengerWithRetry: one attempt of the startup goroutine
BuildMessenger ==
    /\ \E p \in Parties, ok \in BOOLEAN :
         /\ ~messenger[p]
         /\ IF ok THEN messenger' = [messenger EXCEPT ![p] = TRUE] /\ UNCHANGED lastErr
            ELSE lastErr' = [lastErr EXCEPT ![p] = "err"] /\ UNCHANGED messenger
    /\ UNCHANGED <<keyShareLoaded, keyShare, curve, runs, req, bg>>
    /\ UNCHANGED notSg

\* /dkg on the leader, up to the end of the keyShareLoaded check
DkgHandler ==
    /\ \E r \in Reqs :
         /\ req[r].pc = "idle"
         /\ req' = IF keyShareLoaded[Leader]
                      THEN [Respond(r, "200 already_initialized") EXCEPT ![r].kind = "dkg"]
                      ELSE [req EXCEPT ![r].pc = "post", ![r].kind = "dkg"]
    /\ UNCHANGED <<messenger, keyShareLoaded, keyShare, curve, lastErr, runs, bg>>
    /\ UNCHANGED notSg

\* /sign_digest on the leader, up to the end of the keyShareLoaded check
SignHandler ==
    /\ \E r \in Reqs :
         /\ req[r].pc = "idle"
         /\ req' = IF ~keyShareLoaded[Leader]
                      THEN [Respond(r, "409 key_not_initialized") EXCEPT ![r].kind = "sign"]
                      ELSE [req EXCEPT ![r].pc = "post", ![r].kind = "sign"]
    /\ UNCHANGED <<messenger, keyShareLoaded, keyShare, curve, lastErr, runs, bg>>
    /\ UNCHANGED notSg

\* postJSON(cfg.PeerHTTPURL + "/internal/start_dkg" or "/internal/start_sign"):
\* the follower's handler runs and answers, or the post fails
PostStart ==
    /\ \E r \in Reqs, ok \in BOOLEAN :
         /\ req[r].pc = "post"
         /\ ok => \E g \in Gs : bg[g].pc = "none"
         /\ IF ok THEN /\ bg' = start_handler(req[r].kind, "leader")
                       /\ req' = [req EXCEPT ![r].pc = "run"]
            ELSE /\ req' = Respond(r, "502 peer_start_failed")
                 /\ UNCHANGED bg
    /\ UNCHANGED <<messenger, keyShareLoaded, keyShare, curve, lastErr, runs>>
    /\ UNCHANGED notSg

\* /internal/start_dkg or /internal/start_sign called on the follower by
\* another client than the leader's handler
StartDirect ==
    /\ \E kind \in {"dkg", "sign"} :
         /\ \E g \in Gs : bg[g].pc = "none"
         /\ bg' = start_handler(kind, "direct")
         /\ bg' # bg
    /\ UNCHANGED <<messenger, keyShareLoaded, keyShare, curve, lastErr, runs, req>>
    /\ UNCHANGED notSg

\* the leader's runKeyGen / runSign up to the call of the protocol
RunLocal ==
    /\ \E r \in Reqs :
         /\ req[r].pc = "run"
         /\ IF requireReady(Leader) # ""
               THEN req' = Respond(r, "500 messenger not ready") /\ UNCHANGED curve
            ELSE IF req[r].kind = "sign" /\ ~keyShareLoaded[Leader]
               THEN req' = Respond(r, "500 key share not initialized") /\ UNCHANGED curve
            ELSE /\ req' = [req EXCEPT ![r].pc = "proto", ![r].key = keyShare[Leader]]
                 /\ curve' = [curve EXCEPT ![Leader] = TRUE]
    /\ UNCHANGED <<messenger, keyShareLoaded, keyShare, lastErr, runs, bg>>
    /\ UNCHANGED notSg

\* the follower's goroutine: clearErr, then runKeyGen / runSign up to the call
\* of the protocol
BgRun ==
    /\ \E g \in Gs :
         /\ bg[g].pc = "start"
         /\ IF requireReady(Follower) # ""
                  \/ (bg[g].kind = "sign" /\ ~keyShareLoaded[Follower])
               THEN /\ bg' = [bg EXCEPT ![g].pc = "done"]
                    /\ lastErr' = [lastErr EXCEPT ![Follower] = "err"]
                    /\ UNCHANGED curve
            ELSE /\ bg' = [bg EXCEPT ![g].pc = "proto", ![g].key = keyShare[Follower]]
                 /\ lastErr' = [lastErr EXCEPT ![Follower] = ""]
                 /\ curve' = [curve EXCEPT ![Follower] = TRUE]
    /\ UNCHANGED <<messenger, keyShareLoaded, keyShare, runs, req>>
    /\ UNCHANGED notSg

\* mpc.ECDSA2PCKeyGen run by a handler of the leader and a goroutine of the
\* follower together
KeyGenProtocol ==
    /\ \E r \in Reqs, g \in Gs :
         /\ req[r].pc = "proto" /\ req[r].kind = "dkg"
         /\ bg[g].pc = "proto" /\ bg[g].kind = "dkg"
         /\ runs < MaxRuns
         /\ runs' = runs + 1
         /\ req' = [req EXCEPT ![r].pc = "assign", ![r].key = RunKey(runs + 1)]
         /\ bg' = [bg EXCEPT ![g].pc = "assign", ![g].key = RunKey(runs + 1)]
    /\ UNCHANGED <<messenger, keyShareLoaded, keyShare, curve, lastErr>>
    /\ UNCHANGED notSg

\* mpc.ECDSA2PCSign run by the two parties together on the shares they read
SignProtocol ==
    /\ \E r \in Reqs, g \in Gs :
         /\ req[r].pc = "proto" /\ req[r].kind = "sign"
         /\ bg[g].pc = "proto" /\ bg[g].kind = "sign"
         /\ IF req[r].key = bg[g].key
               THEN /\ req' = Respond(r, "200 signature")
                    /\ UNCHANGED lastErr
               ELSE /\ req' = Respond(r, "500 sign failed")
                    /\ lastErr' = [lastErr EXCEPT ![Follower] = "err"]
         /\ bg' = [bg EXCEPT ![g].pc = "done"]
    /\ UNCHANGED <<messenger, keyShareLoaded, keyShare, curve, runs>>
    /\ UNCHANGED notSg

\* the protocol returns an error to one side (the peer never joins, the
\* connection drops)
ProtocolFail ==
    /\ \/ \E r \in Reqs :
            /\ req[r].pc = "proto"
            /\ req' = Respond(r, "500 protocol error")
            /\ UNCHANGED <<bg, lastErr>>
       \/ \E g \in Gs :
            /\ bg[g].pc = "proto"
            /\ bg' = [bg EXCEPT ![g].pc = "done"]
            /\ lastErr' = [lastErr EXCEPT ![Follower] = "err"]
            /\ UNCHANGED req
    /\ UNCHANGED <<messenger, keyShareLoaded, keyShare, curve, runs>>
    /\ UNCHANGED notSg

\* the end of runKeyGen: s.keyShare = resp.KeyShare; s.keyShareLoaded = true;
\* saveKeyShare; on the leader then waitPeerReady and the answer
AssignKeyShare ==
    /\ \/ \E r \in Reqs :
            /\ req[r].pc = "assign"
            /\ keyShare' = [keyShare EXCEPT ![Leader] = req[r].key]
            /\ keyShareLoaded' = [keyShareLoaded EXCEPT ![Leader] = TRUE]
            /\ \E resp \in {"200 ok", "502 peer_not_ready"} : req' = Respond(r, resp)
            /\ UNCHANGED bg
       \/ \E g \in Gs :
            /\ bg[g].pc = "assign"
            /\ keyShare' = [keyShare EXCEPT ![Follower] = bg[g].key]
            /\ keyShareLoaded' = [keyShareLoaded EXCEPT ![Follower] = TRUE]
            /\ bg' = [bg EXCEPT ![g].pc = "done"]
            /\ UNCHANGED req
    /\ UNCHANGED <<messenger, curve, lastErr, runs>>
    /\ UNCHANGED notSg

\* ------------------------------------------- restore_from_decrypted alone
\* row indexes handed to restore_from_decrypted
RowArgs == (0 - 1) .. (Kappa + 1)
ABORT == "ABORT"
\* what a read outside b and rows gives when cb_assert is compiled out
GarbageRows == {[x_bin |-> << >>, r |-> << >>, c |-> NoCt],
                [x_bin |-> <<1>>, r |-> <<1, 2>>, c |-> NoCt]}
\* ec_pve_batch_t::restore_from_decrypted for any int row_index; ub is what the
\* build does with b.get_bit and rows[] outside their range: cb_assert aborts,
\* or the reads return whatever lies there
ec_pve_batch_restore_any(p, row_index, decrypted_x_buf, x, ub) ==
    IF row_index > Kappa THEN [rv |-> E_BADARG, x |-> x, reads |-> {}]
    ELSE IF row_index \in Rows
        THEN LET res == ec_pve_batch_restore_from_decrypted(p, row_index, decrypted_x_buf, x)
             IN [rv |-> res.rv, x |-> res.x, reads |-> {"b", "rows"}]
    ELSE IF ub.abort THEN [rv |-> ABORT, x |-> x, reads |-> {}]
    ELSE LET bi == ub.bit
             row == ub.row
             x1_bin == IF bi THEN row.x_bin ELSE decrypted_x_buf
             r01 == IF bi THEN decrypted_x_buf ELSE <<row.r[1]>>
         IN IF ~bi /\ Len(row.r) # 2 THEN [rv |-> E_CRYPTO, x |-> x, reads |-> {"b", "rows"}]
            ELSE LET res == batch_restore_elems(p, DrbgGenVec(r01, p.n),
                                                VectorFromBin(x1_bin, p.n), 0, x)
                 IN [rv |-> res.rv, x |-> res.x, reads |-> {"b", "rows"}]

NoRst == [p |-> NewBatch(1), called |-> FALSE, row_index |-> 0, rv |-> SUCCESS, reads |-> {}]
RstIdle == rst = NoRst
\* restore_from_decrypted(row_index, decrypted_x_buf, curve, xs) on an
\* encrypted instance
RestoreRow ==
    /\ ~rst.called
    /\ \E row_index \in RowArgs, buf \in {<<1>>, <<2>>}, abort, bit \in BOOLEAN,
          row \in GarbageRows :
         /\ (row_index \in Rows \/ row_index > Kappa) =>
               (abort /\ bit /\ row = CHOOSE r \in GarbageRows : TRUE)
         /\ abort => (bit /\ row = CHOOSE r \in GarbageRows : TRUE)
         /\ LET res == ec_pve_batch_restore_any(
                           rst.p, row_index, buf, [j \in Elems(rst.p.n) |-> 0],
                           [abort |-> abort, bit |-> bit, row |-> row])
            IN rst' = [rst EXCEPT !.called = TRUE, !.row_index = row_index,
                                  !.rv = res.rv, !.reads = res.reads]
    /\ UNCHANGED notRst

\* ------------------------------------------------- registry and raw calls
NoReg == [pc |-> "idle", kem |-> NoKem, ctx |-> NullCtx]
NoBindRet == [kind |-> "none", thr |-> 0, kem |-> NoKem, cbs |-> << >>, rv |-> SUCCESS]
BindIdle ==
    /\ reg = [g \in Goroutines |-> NoReg]
    /\ bindRet = NoBindRet

\* RegisterKEMInstance(p) up to the end of instanceReg.Range: the context found
\* for p is returned, or the call goes on to allocate one
RegRange(g) ==
    /\ reg[g].pc \in {"idle", "done"}
    /\ \E p \in Kems :
         LET found == {c \in Ctxs : instanceReg[c] = p}
         IN reg' = [reg EXCEPT ![g] =
                IF found # {}
                   THEN [pc |-> "done", kem |-> p, ctx |-> CHOOSE c \in found : TRUE]
                   ELSE [pc |-> "store", kem |-> p, ctx |-> NullCtx]]
    /\ UNCHANGED <<instanceReg, g_ctx, bindRet>>
    /\ UNCHANGED notBind

\* ctx := C.malloc(1); instanceReg.Store(ctx, p); return ctx
RegStore(g) ==
    /\ reg[g].pc = "store"
    /\ \E ctx \in Ctxs :
         /\ instanceReg[ctx] = NoKem
         /\ \A c \in Ctxs : instanceReg[c] = NoKem => ctx <= c
         /\ instanceReg' = [instanceReg EXCEPT ![ctx] = reg[g].kem]
         /\ reg' = [reg EXCEPT ![g] = [pc |-> "done", kem |-> reg[g].kem, ctx |-> ctx]]
    /\ UNCHANGED <<g_ctx, bindRet>>
    /\ UNCHANGED notBind

\* the bundle an Encrypt of GoX under key answers with when implementation kem
\* serves every callback
GoBundle(kem, key) == pve_encrypt(key, GoLabel, [k \in 1 .. 2 * Kappa |-> kem]).out

\* PVE.Encrypt on the handle goroutine g got from NewPVE, running on thread t:
\* LockOSThread, activateCtx, cgobinding.PVE_encrypt
ApiEncrypt(g, t) ==
    /\ reg[g].pc = "done"
    /\ g_ctx' = [g_ctx EXCEPT ![CtxSlot(t)] = reg[g].ctx]
    /\ \E key \in KeyIds :
         LET cbs == [k \in 1 .. 2 * Kappa |-> instanceReg[reg[g].ctx]]
         IN bindRet' = [kind |-> "api", thr |-> t, kem |-> reg[g].kem, cbs |-> cbs,
                        rv |-> pve_encrypt(key, GoLabel, cbs).rv]
    /\ UNCHANGED <<instanceReg, reg>>
    /\ UNCHANGED notBind

\* cgobinding.PVE_verify called on thread t by a caller that activated no
\* context, on a bundle some implementation encrypted
RawVerify(t) ==
    /\ \E kem \in Kems, key \in KeyIds :
         LET cbs == [k \in 1 .. Kappa |-> Dispatch(t)]
         IN /\ KemKey(kem, key) # BadKey
            /\ bindRet' = [kind |-> "raw", thr |-> t, kem |-> NoKem, cbs |-> cbs,
                           rv |-> pve_verify(key, GoBundle(kem, key), GoLabel, cbs).rv]
    /\ UNCHANGED <<instanceReg, g_ctx, reg>>
    /\ UNCHANGED notBind

\* ---------------------------------------------------------- quorum engine
\* crypto::ss::node_t: LEAF(name), AND, OR, THRESHOLD(k) over child nodes
Leaf(name) == [kind |-> "LEAF", name |-> name, k |-> 0, kids |-> << >>]
Node(kind, k, kids) == [kind |-> kind, name |-> "", k |-> k, kids |-> kids]
\* the access structures explored: 2 of 3, and p1 with one of p2, p3
Thr2of3 == Node("THRESHOLD", 2, <<Leaf("p1"), Leaf("p2"), Leaf("p3")>>)
AndOr == Node("AND", 0, <<Leaf("p1"), Node("OR", 0, <<Leaf("p2"), Leaf("p3")>>)>>)
AcSet == {Thr2of3, AndOr}
AcLeaves == {"p1", "p2", "p3"}
\* ac.enough_for_quorum: the leaves in S satisfy the node
RECURSIVE Sat(_, _)
Sat(node, S) ==
    CASE node.kind = "LEAF" -> node.name \in S
      [] node.kind = "AND" -> \A i \in DOMAIN node.kids : Sat(node.kids[i], S)
      [] node.kind = "OR" -> \E i \in DOMAIN node.kids : Sat(node.kids[i], S)
      [] node.kind = "THRESHOLD" ->
            Cardinality({i \in DOMAIN node.kids : Sat(node.kids[i], S)}) >= node.k
\* the key pair of each leaf
LeafKey(leaf) == CASE leaf = "p1" -> "k1" [] leaf = "p2" -> "k2" [] OTHER -> "k3"
AcDks == {"k1", "k2", "k3"}
\* the key of the retained ciphertext of row i, branch 0 or 1, derived from the
\* seed of that branch
RowKeyNames == <<"rk00", "rk01", "rk10", "rk11", "rk20", "rk21", "rk30", "rk31">>
RowKey(i, branch) == RowKeyNames[2 * i + branch + 1]

\* split(secret, access_structure) -> {leaf_name: share}
AcSplit(ac, secret) ==
    [leaf \in AcLeaves |-> [secret |-> secret, ac |-> ac, leaf |-> leaf]]
\* reconstruct(access_structure, {leaf_name: share}): the secret for shares of
\* one split held by a quorum, an error otherwise
AcReconstruct(ac, shares) ==
    LET S == DOMAIN shares
    IN IF S = {} \/ ~Sat(ac, S) THEN [rv |-> E_CRYPTO, secret |-> ""]
       ELSE LET s == shares[CHOOSE l \in S : TRUE].secret
            IN IF \A l \in S : shares[l] = AcSplit(ac, s)[l]
               THEN [rv |-> SUCCESS, secret |-> s]
               ELSE [rv |-> E_CRYPTO, secret |-> ""]

\* ec_pve_ac_t(): Q, L, b, rows(kappa) of x_bin, r, c, quorum_c
NewAc(n) ==
    [n |-> n, L |-> "", Q |-> [j \in Elems(n) |-> DefaultPoint], b |-> NewBatch(n).b,
     rows |-> [i \in Rows |-> [x_bin |-> << >>, r |-> << >>, c |-> NoCtBatch(n),
                                quorum_c |-> << >>]]]

\* encrypt_row: the row ciphertext under the row key, and for every leaf its
\* share of the row key under the leaf's public key
AcEncryptRow(ac, pks, inner_label, key, seed, plain) ==
    [c |-> BasePkeEncrypt(key, inner_label, plain, DrbgGen(seed, 0)),
     quorum_c |-> [leaf \in AcLeaves |->
                     BasePkeEncrypt(pks[leaf], inner_label, AcSplit(ac, key)[leaf],
                                    DrbgGen(seed, 1))]]

\* ec_pve_ac_t::encrypt(ac, ac_pks, label, curve, xs)
ec_pve_ac_encrypt(ac, pks, n, label, xs, r01, r02, r1) ==
    LET x == [j \in Elems(n) |-> xs[j] % Order]
        Q == [j \in Elems(n) |-> MulG(x[j])]
        inner_label == GenPVELabelWithPoint(label, Q)
        x0 == [i \in Rows |-> DrbgGenVec(<<r01[i]>>, n)]
        x1 == [i \in Rows |-> [j \in Elems(n) |-> (x[j] - x0[i][j] + Order) % Order]]
        X0 == [i \in Rows |-> [j \in Elems(n) |-> MulG(x0[i][j])]]
        X1 == [i \in Rows |-> [j \in Elems(n) |-> PointSub(Q[j], X0[i][j])]]
        x1_bin == [i \in Rows |-> VectorToBin(x1[i], n)]
        row0 == [i \in Rows |->
                   AcEncryptRow(ac, pks, inner_label, RowKey(i, 0), <<r02[i]>>, <<r01[i]>>)]
        row1 == [i \in Rows |->
                   AcEncryptRow(ac, pks, inner_label, RowKey(i, 1), <<r1[i]>>, x1_bin[i])]
        c0 == [i \in Rows |-> row0[i].c]
        c1 == [i \in Rows |-> row1[i].c]
        b == RoHashStringBatch(Q, label, c0, c1, X0, X1, n)
    IN [n |-> n, L |-> label, Q |-> Q, b |-> b,
        rows |-> [i \in Rows |->
            [x_bin |-> IF GetBit(b, i) THEN x1_bin[i] ELSE << >>,
             r |-> IF GetBit(b, i) THEN <<r1[i]>> ELSE <<r01[i], r02[i]>>,
             c |-> IF GetBit(b, i) THEN c0[i] ELSE c1[i],
             quorum_c |-> IF GetBit(b, i) THEN row0[i].quorum_c ELSE row1[i].quorum_c]]]

\* ec_pve_ac_t::party_decrypt_row(ac, row_index, path, prv_key, label, out_share)
ec_pve_ac_party_decrypt_row(p, ac, row_index, path, dk, label) ==
    IF row_index \notin Rows \/ path \notin AcLeaves
        THEN [rv |-> E_BADARG, share |-> << >>]
    ELSE LET d == BasePkeDecrypt(dk, GenPVELabelWithPoint(label, p.Q),
                                 p.rows[row_index].quorum_c[path])
         IN [rv |-> d.rv, share |-> d.plain]

\* ec_pve_ac_t::aggregate_to_restore_row(ac, row_index, label, quorum_decrypted,
\* x, skip_verify = true)
ec_pve_ac_aggregate_to_restore_row(p, ac, row_index, label, quorum_decrypted) ==
    LET rec == AcReconstruct(ac, quorum_decrypted)
        d == BasePkeDecrypt(rec.secret, GenPVELabelWithPoint(label, p.Q),
                            p.rows[row_index].c)
        res == ec_pve_batch_restore_from_decrypted(p, row_index, d.plain,
                                                   [j \in Elems(p.n) |-> 0])
    IN IF row_index \notin Rows THEN [rv |-> E_BADARG, x |-> << >>]
       ELSE IF rec.rv # SUCCESS THEN [rv |-> rec.rv, x |-> << >>]
       ELSE IF d.rv # SUCCESS THEN [rv |-> d.rv, x |-> << >>]
       ELSE IF res.rv # SUCCESS THEN [rv |-> res.rv, x |-> << >>]
       ELSE [rv |-> SUCCESS, x |-> res.x]

\* the map std::map<std::string, bn_t> built from the first count entries of
\* the two lists
QuorumMap(paths, shares, count) ==
    [l \in {paths[k] : k \in 1 .. count} |->
        shares[CHOOSE k \in 1 .. count : paths[k] = l /\ \A m \in (k + 1) .. count : paths[m] # l]]

\* mutant: the error of aggregate_to_restore_row is not looked at
pve_ac_aggregate_to_restore_row_IgnoreRv(p, ac, label, paths, shares, quorum_count, row_index) ==
    IF Len(paths) # quorum_count \/ Len(shares) # quorum_count
        THEN [rv |-> E_CRYPTO, out |-> << >>]
    ELSE LET a == ec_pve_ac_aggregate_to_restore_row(
                      p, ac, row_index, label, QuorumMap(paths, shares, quorum_count))
         IN [rv |-> SUCCESS, out |-> [j \in Elems(p.n) |-> 0]]
\* mutant: the last share of the lists is left out of the map
pve_ac_aggregate_to_restore_row_DropLast(p, ac, label, paths, shares, quorum_count, row_index) ==
    IF Len(paths) # quorum_count \/ Len(shares) # quorum_count
        THEN [rv |-> E_CRYPTO, out |-> << >>]
    ELSE LET a == ec_pve_ac_aggregate_to_restore_row(
                      p, ac, row_index, label, QuorumMap(paths, shares, quorum_count - 1))
         IN IF a.rv # SUCCESS THEN [rv |-> a.rv, out |-> << >>]
            ELSE IF p.n = 0 THEN [rv |-> E_CRYPTO, out |-> << >>]
            ELSE [rv |-> SUCCESS, out |-> a.x]

\* pve_ac_aggregate_to_restore_row(ac, pve_bundle, label, paths, shares,
\* quorum_count, row_index, out_values)
pve_ac_aggregate_to_restore_row(p, ac, label, paths, shares, quorum_count, row_index) ==
    IF Len(paths) # quorum_count \/ Len(shares) # quorum_count
        THEN [rv |-> E_CRYPTO, out |-> << >>]
    ELSE LET a == ec_pve_ac_aggregate_to_restore_row(
                      p, ac, row_index, label, QuorumMap(paths, shares, quorum_count))
         IN IF a.rv # SUCCESS THEN [rv |-> a.rv, out |-> << >>]
            ELSE IF p.n = 0 THEN [rv |-> E_CRYPTO, out |-> << >>]
            ELSE [rv |-> SUCCESS, out |-> a.x]

\* the leaves of a set in the order the caller lists them
AcLeafOrder == <<"p1", "p2", "p3">>
SetToSeq(S) == SelectSeq(AcLeafOrder, LAMBDA l : l \in S)

NoAcEnc == [done |-> FALSE, ac |-> Thr2of3, p |-> NewAc(1), xs |-> << >>, label |-> ""]
NoAcShares == [row |-> 0, m |-> << >>]
NoAcLast == [op |-> "new", rv |-> SUCCESS, out |-> << >>, row |-> 0, label |-> "",
             leaves |-> {}]
AcIdle ==
    /\ acEnc = NoAcEnc
    /\ acShares = NoAcShares
    /\ acLast = NoAcLast

\* scalars handed to the quorum encrypt: one is not reduced mod q
AcXInputs == {1, 2, Order + 1}
\* pve.encrypt(ac, pub_keys, label, curve, xs)
AcEncrypt ==
    /\ ~acEnc.done
    /\ \E ac \in AcSet, n \in BatchSizes, label \in Labels, r01 \in [Rows -> Seeds] :
         \E xs \in [Elems(n) -> AcXInputs] :
            LET p == ec_pve_ac_encrypt(ac, [l \in AcLeaves |-> LeafKey(l)], n, label, xs,
                                       r01, [i \in Rows |-> 2], [i \in Rows |-> 1])
            IN /\ acEnc' = [done |-> TRUE, ac |-> ac, p |-> p, xs |-> xs, label |-> label]
               /\ acLast' = [NoAcLast EXCEPT !.op = "encrypt", !.label = label]
    /\ UNCHANGED acShares
    /\ UNCHANGED notAc

\* pve.party_decrypt_row(ac, row_index, path, prv_key, label, share) by a leaf
\* that has not given a share yet; the shares of one row are collected
AcPartyDecryptRow ==
    /\ acEnc.done /\ acLast.op \in {"encrypt", "party"}
    /\ \E row \in Rows, path \in AcLeaves, dk \in AcDks, label \in Labels :
         /\ acShares.m # << >> => row = acShares.row
         /\ path \notin DOMAIN acShares.m
         /\ LET d == ec_pve_ac_party_decrypt_row(acEnc.p, acEnc.ac, row, path, dk, label)
            IN /\ acLast' = [op |-> "party", rv |-> d.rv, out |-> d.share, row |-> row,
                             label |-> label, leaves |-> {path}]
               /\ acShares' =
                     IF d.rv # SUCCESS THEN acShares
                     ELSE [row |-> row,
                           m |-> [l \in DOMAIN acShares.m \cup {path} |->
                                    IF l = path THEN d.share ELSE acShares.m[l]]]
    /\ UNCHANGED acEnc
    /\ UNCHANGED notAc

\* PVE_AC_aggregate_to_restore_row over the shares collected so far
AcAggregate ==
    /\ acEnc.done /\ acLast.op = "party" /\ acShares.m # << >>
    /\ \E label \in Labels :
         LET S == DOMAIN acShares.m
             paths == SetToSeq(S)
             shares == [k \in 1 .. Len(paths) |-> acShares.m[paths[k]]]
             a == pve_ac_aggregate_to_restore_row(acEnc.p, acEnc.ac, label, paths, shares,
                                                  Len(paths), acShares.row)
         IN acLast' = [op |-> "aggregate", rv |-> a.rv, out |-> a.out,
                       row |-> acShares.row, label |-> label, leaves |-> S]
    /\ UNCHANGED <<acEnc, acShares>>
    /\ UNCHANGED notAc

\* -------------------------------------------------------- serialization
\* sizeof(buf128_t)
Buf128Size == 16
\* one byte of a buffer: a number, or a byte of a value the model keeps
\* symbolic (a ciphertext, a hash value, a label)
NoSym == [none |-> TRUE]
Byte(v) == [n |-> v, o |-> NoSym]
Sym(x) == [n |-> 0, o |-> x]
IntCells(seq) == [k \in 1 .. Len(seq) |-> Byte(seq[k])]
CellsInt(cells) == [k \in 1 .. Len(cells) |-> cells[k].n]
\* buf_t L
LabelCells(L) == IF L = "" THEN << >> ELSE <<Sym([str |-> L])>>
CellsLabel(cells) ==
    IF Len(cells) = 0 THEN ""
    ELSE IF "str" \in DOMAIN cells[1].o THEN cells[1].o.str ELSE "?"
\* buf_t c: the serialized base ciphertext
CtCells(ct) == <<Sym(ct)>>
CellsCt(cells, none) ==
    IF Len(cells) = 1 /\ "ek" \in DOMAIN cells[1].o THEN cells[1].o ELSE none
\* the kappa challenge bits as the low bits of the last byte
BitsNum(bits) == SumSeq([k \in 1 .. Kappa |-> IF bits[k - 1] THEN 2 ^ (k - 1) ELSE 0])
\* buf128_t::save / load of the challenge b
Save128Bits(b) ==
    [k \in 1 .. Buf128Size |->
        IF k = 1 THEN Sym(b.pre) ELSE Byte(IF k = Buf128Size THEN BitsNum(b.bits) ELSE 0)]
Load128Bits(cells, none) ==
    [bits |-> [i \in Rows |-> (cells[Buf128Size].n \div (2 ^ i)) % 2 = 1],
     pre |-> IF "c0" \in DOMAIN cells[1].o THEN cells[1].o ELSE none]
\* buf128_t::save / load of a row seed r[i]
Save128Int(v) == [k \in 1 .. Buf128Size |-> Byte(IF k = Buf128Size THEN v ELSE 0)]
Load128Int(cells) == cells[Buf128Size].n
Zero128 == [k \in 1 .. Buf128Size |-> Byte(0)]

\* converter_t writing: the bytes written so far
convert_len(k) == <<Byte(k)>>
\* converter.convert(buf_t): length, then the bytes
convert_buf(cells) == convert_len(Len(cells)) \o cells
\* converter.convert(bn_t): length, then the magnitude
convert_bn(x) == convert_buf(IntCells(ToBin(x)))
\* converter.convert(ecc_point_t): on-curve flag and coordinate
convert_point(P) == <<Byte(IF P.on THEN 1 ELSE 0), Byte(P.v)>>
\* converter.convert(std::vector<ecc_point_t>): count, then the points
RECURSIVE convert_points_from(_, _, _)
convert_points_from(Q, n, j) ==
    IF j >= n THEN << >> ELSE convert_point(Q[j]) \o convert_points_from(Q, n, j + 1)
convert_points(Q, n) == convert_len(n) \o convert_points_from(Q, n, 0)
\* buf128_t::convert, converter.is_write(): save(converter.current()); forward(16)
buf128_convert_write(cells) == SubSeq(cells, 1, Buf128Size)

\* converter_t reading: the bytes, the cursor, the error flag, the value read last
Rd(w) == [w |-> w, pos |-> 1, err |-> FALSE, val |-> << >>]
SetError(c, val) == [c EXCEPT !.err = TRUE, !.val = val]
\* converter.at_least(k)
AtLeast(c, k) == c.pos + k - 1 <= Len(c.w)
read_cells(c, k) ==
    IF c.err \/ k < 0 \/ ~AtLeast(c, k) THEN SetError(c, << >>)
    ELSE [c EXCEPT !.val = SubSeq(c.w, c.pos, c.pos + k - 1), !.pos = @ + k]
read_len(c) ==
    LET r == read_cells(c, 1)
    IN IF r.err THEN SetError(r, 0) ELSE [r EXCEPT !.val = r.val[1].n]
read_buf(c) == LET l == read_len(c) IN read_cells(l, l.val)
read_bn(c) == LET b == read_buf(c) IN [b EXCEPT !.val = FromBin(CellsInt(b.val))]
read_point(c) ==
    LET r == read_cells(c, 2)
    IN IF r.err THEN SetError(r, DefaultPoint)
       ELSE [r EXCEPT !.val = [on |-> r.val[1].n = 1, v |-> r.val[2].n]]
RECURSIVE read_points_from(_, _, _, _)
read_points_from(c, m, j, acc) ==
    IF j >= m \/ c.err THEN [c EXCEPT !.val = acc]
    ELSE LET q == read_point(c)
         IN read_points_from(q, m, j + 1, [k \in Elems(j + 1) |-> IF k = j THEN q.val ELSE acc[k]])
read_points(c) == LET l == read_len(c) IN read_points_from(l, l.val, 0, << >>)
\* mutant: the cursor is not moved after a buf128_t was read
buf128_convert_read_NoForward(c) ==
    IF c.err \/ ~AtLeast(c, Buf128Size) THEN SetError(c, Zero128)
    ELSE [c EXCEPT !.val = SubSeq(c.w, c.pos, c.pos + Buf128Size - 1)]
\* buf128_t::convert, reading: error if fewer than 16 bytes are left, else
\* load(converter.current()); forward(16)
buf128_convert_read(c) ==
    IF c.err \/ ~AtLeast(c, Buf128Size) THEN SetError(c, Zero128)
    ELSE [c EXCEPT !.val = SubSeq(c.w, c.pos, c.pos + Buf128Size - 1), !.pos = @ + Buf128Size]

\* ec_pve_t::convert, writing: Q, L, b, then x_rows[i], r[i], c[i] of every row
RECURSIVE ec_pve_write_rows(_, _)
ec_pve_write_rows(p, i) ==
    IF i = Kappa THEN << >>
    ELSE convert_bn(p.x_rows[i]) \o buf128_convert_write(Save128Int(p.r[i]))
         \o convert_buf(CtCells(p.c[i])) \o ec_pve_write_rows(p, i + 1)
ec_pve_convert_write(p) ==
    [err |-> FALSE,
     w |-> convert_point(p.Q) \o convert_buf(LabelCells(p.L))
           \o buf128_convert_write(Save128Bits(p.b)) \o ec_pve_write_rows(p, 0)]
\* ec_pve_t::convert, reading into a fresh ec_pve_t
RECURSIVE ec_pve_read_rows(_, _, _)
ec_pve_read_rows(c, p, i) ==
    IF i = Kappa THEN [err |-> c.err, p |-> p]
    ELSE LET x == read_bn(c)
             r == buf128_convert_read(x)
             ct == read_buf(r)
         IN ec_pve_read_rows(ct, [p EXCEPT !.x_rows[i] = x.val,
                                           !.r[i] = Load128Int(r.val),
                                           !.c[i] = CellsCt(ct.val, NoCt)], i + 1)
ec_pve_convert_read(w) ==
    LET q == read_point(Rd(w))
        l == read_buf(q)
        b == buf128_convert_read(l)
    IN ec_pve_read_rows(b, [NewPve EXCEPT !.Q = q.val, !.L = CellsLabel(l.val),
                                          !.b = Load128Bits(b.val, NoChallenge.pre)], 0)

\* ec_pve_batch_t::convert, writing: error unless Q.size() = n; Q, L, b, then
\* x_bin, r, c of every row
RECURSIVE ec_pve_batch_write_rows(_, _)
ec_pve_batch_write_rows(p, i) ==
    IF i = Kappa THEN << >>
    ELSE convert_buf(IntCells(p.rows[i].x_bin)) \o convert_buf(IntCells(p.rows[i].r))
         \o convert_buf(CtCells(p.rows[i].c)) \o ec_pve_batch_write_rows(p, i + 1)
ec_pve_batch_convert_write(p) ==
    IF DOMAIN p.Q # Elems(p.n) THEN [err |-> TRUE, w |-> << >>]
    ELSE [err |-> FALSE,
          w |-> convert_points(p.Q, p.n) \o convert_buf(LabelCells(p.L))
                \o buf128_convert_write(Save128Bits(p.b)) \o ec_pve_batch_write_rows(p, 0)]
\* ec_pve_batch_t::convert, reading into a fresh ec_pve_batch_t(n)
RECURSIVE ec_pve_batch_read_rows(_, _, _)
ec_pve_batch_read_rows(c, p, i) ==
    IF i = Kappa THEN [err |-> c.err, p |-> p]
    ELSE LET x == read_buf(c)
             r == read_buf(x)
             ct == read_buf(r)
         IN ec_pve_batch_read_rows(ct,
                [p EXCEPT !.rows[i] = [x_bin |-> CellsInt(x.val), r |-> CellsInt(r.val),
                                       c |-> CellsCt(ct.val, NoCtBatch(p.n))]], i + 1)
ec_pve_batch_convert_read(n, w) ==
    LET fresh == NewBatch(n)
        q == read_points(Rd(w))
        l == read_buf(q)
        b == buf128_convert_read(l)
    IN IF DOMAIN fresh.Q # Elems(fresh.n) THEN [err |-> TRUE, p |-> fresh]
       ELSE ec_pve_batch_read_rows(b, [fresh EXCEPT !.Q = q.val, !.L = CellsLabel(l.val),
                                                    !.b = Load128Bits(b.val, fresh.b.pre)], 0)

\* converter.convert(std::vector<ciphertext_adapter_t>): count, then each ct_ser
RECURSIVE convert_quorum_from(_, _)
convert_quorum_from(qc, k) ==
    IF k > Len(AcLeafOrder) THEN << >>
    ELSE convert_buf(CtCells(qc[AcLeafOrder[k]])) \o convert_quorum_from(qc, k + 1)
convert_quorum(qc) ==
    IF qc = << >> THEN convert_len(0)
    ELSE convert_len(Len(AcLeafOrder)) \o convert_quorum_from(qc, 1)
RECURSIVE read_quorum_from(_, _, _, _)
read_quorum_from(c, m, k, acc) ==
    IF k > m \/ c.err THEN [c EXCEPT !.val = acc]
    ELSE LET ct == read_buf(c)
         IN read_quorum_from(ct, m, k + 1, Append(acc, CellsCt(ct.val, NoCt)))
read_quorum(c) ==
    LET l == read_len(c)
        r == read_quorum_from(l, l.val, 1, << >>)
    IN IF Len(r.val) = 0 THEN r
       ELSE IF Len(r.val) # Len(AcLeafOrder) THEN SetError(r, << >>)
       ELSE [r EXCEPT !.val = [leaf \in AcLeaves |->
                r.val[CHOOSE k \in 1 .. Len(AcLeafOrder) : AcLeafOrder[k] = leaf]]]
\* ec_pve_ac_t::convert, writing: Q, L, b, then x_bin, r, c, quorum_c of every row
RECURSIVE ec_pve_ac_write_rows(_, _)
ec_pve_ac_write_rows(p, i) ==
    IF i = Kappa THEN << >>
    ELSE convert_buf(IntCells(p.rows[i].x_bin)) \o convert_buf(IntCells(p.rows[i].r))
         \o convert_buf(CtCells(p.rows[i].c)) \o convert_quorum(p.rows[i].quorum_c)
         \o ec_pve_ac_write_rows(p, i + 1)
ec_pve_ac_convert_write(p) ==
    [err |-> FALSE,
     w |-> convert_points(p.Q, p.n) \o convert_buf(LabelCells(p.L))
           \o buf128_convert_write(Save128Bits(p.b)) \o ec_pve_ac_write_rows(p, 0)]
\* ec_pve_ac_t::convert, reading into a fresh ec_pve_ac_t
RECURSIVE ec_pve_ac_read_rows(_, _, _)
ec_pve_ac_read_rows(c, p, i) ==
    IF i = Kappa THEN [err |-> c.err, p |-> p]
    ELSE LET x == read_buf(c)
             r == read_buf(x)
             ct == read_buf(r)
             qc == read_quorum(ct)
         IN ec_pve_ac_read_rows(qc,
                [p EXCEPT !.rows[i] = [x_bin |-> CellsInt(x.val), r |-> CellsInt(r.val),
                                       c |-> CellsCt(ct.val, NoCtBatch(p.n)),
                                       quorum_c |-> qc.val]], i + 1)
ec_pve_ac_convert_read(w) ==
    LET q == read_points(Rd(w))
        n == Cardinality(DOMAIN q.val)
        l == read_buf(q)
        b == buf128_convert_read(l)
    IN ec_pve_ac_read_rows(b, [NewAc(n) EXCEPT !.Q = q.val, !.L = CellsLabel(l.val),
                                               !.b = Load128Bits(b.val, NewAc(n).b.pre)], 0)

\* coinbase::convert(pve) and coinbase::deser(mem, pve) for the three engines
SerKinds == {"single", "batch", "quorum"}
Convert(kind, p) ==
    CASE kind = "single" -> ec_pve_convert_write(p)
      [] kind = "batch" -> ec_pve_batch_convert_write(p)
      [] kind = "quorum" -> ec_pve_ac_convert_write(p)
Deser(kind, n, w) ==
    CASE kind = "single" -> ec_pve_convert_read(w)
      [] kind = "batch" -> ec_pve_batch_convert_read(n, w)
      [] kind = "quorum" -> ec_pve_ac_convert_read(w)

NoWire == [err |-> FALSE, w |-> << >>]
NoGot == [err |-> FALSE, n |-> 0, p |-> NewPve]
SerIdle ==
    /\ serPc = "new"
    /\ serSrc = [kind |-> "single", p |-> NewPve]
    /\ serWire = NoWire
    /\ serGot = NoGot
    /\ serWire2 = NoWire

\* encrypt on a fresh instance of one of the three engines
SerEncrypt ==
    /\ serPc = "new"
    /\ \E kind \in SerKinds, n \in BatchSizes, label \in Labels, r01 \in [Rows -> Seeds] :
         /\ kind = "single" => n = 1
         /\ \E ek \in KeyIds, xs \in [Elems(n) -> XInputs] :
              /\ kind = "quorum" => ek = "kA"
              /\ serSrc' =
                   [kind |-> kind,
                    p |-> CASE kind = "single" ->
                                 ec_pve_encrypt(ek, label, xs[0], r01, [i \in Rows |-> 2])
                            [] kind = "batch" ->
                                 ec_pve_batch_encrypt(n, ek, label, xs, r01,
                                                      [i \in Rows |-> 2], [i \in Rows |-> 1])
                            [] kind = "quorum" ->
                                 ec_pve_ac_encrypt(Thr2of3, [l \in AcLeaves |-> LeafKey(l)],
                                                   n, label, xs, r01,
                                                   [i \in Rows |-> 2], [i \in Rows |-> 1])]
    /\ serPc' = "enc"
    /\ UNCHANGED <<serWire, serGot, serWire2>>
    /\ UNCHANGED notSer

\* buf_t out = coinbase::convert(pve)
Serialize ==
    /\ serPc = "enc"
    /\ serWire' = Convert(serSrc.kind, serSrc.p)
    /\ serPc' = "ser"
    /\ UNCHANGED <<serSrc, serGot, serWire2>>
    /\ UNCHANGED notSer

\* coinbase::deser(bundle, pve) into a fresh instance; a batch instance is
\* constructed with a batch count
Deserialize ==
    /\ serPc = "ser" /\ ~serWire.err
    /\ \E n \in BatchSizes :
         /\ serSrc.kind # "batch" => n = 1
         /\ LET d == Deser(serSrc.kind, n, serWire.w)
            IN serGot' = [err |-> d.err, n |-> n, p |-> d.p]
    /\ serPc' = "deser"
    /\ UNCHANGED <<serSrc, serWire, serWire2>>
    /\ UNCHANGED notSer

\* coinbase::convert of the deserialized instance
Reserialize ==
    /\ serPc = "deser" /\ ~serGot.err
    /\ serWire2' = Convert(serSrc.kind, serGot.p)
    /\ serPc' = "reser"
    /\ UNCHANGED <<serSrc, serWire, serGot>>
    /\ UNCHANGED notSer

InitGo ==
    /\ NetIdle
    /\ SgIdle
    /\ RstIdle
    /\ BindIdle
    /\ GoIdle
    /\ AcIdle
    /\ SerIdle
    /\ engine = "single" /\ InitPve
NextGo ==
    \/ NewPVE
    \/ \E g \in Goroutines : GoCall(g)
    \/ \E g \in Goroutines : ActivateCtx(g)
    \/ \E g \in Goroutines : Callback(g)
    \/ \E g \in Goroutines : Return(g)
SpecGo == InitGo /\ [][NextGo]_vars

InitSer ==
    /\ NetIdle
    /\ SgIdle
    /\ RstIdle
    /\ BindIdle
    /\ SerIdle
    /\ AcIdle
    /\ GoIdle
    /\ engine = "single" /\ InitPve
NextSer == SerEncrypt \/ Serialize \/ Deserialize \/ Reserialize
SpecSer == InitSer /\ [][NextSer]_vars

InitAc ==
    /\ NetIdle
    /\ SgIdle
    /\ RstIdle
    /\ BindIdle
    /\ AcIdle
    /\ GoIdle
    /\ SerIdle
    /\ engine = "single" /\ InitPve
NextAc == AcEncrypt \/ AcPartyDecryptRow \/ AcAggregate
SpecAc == InitAc /\ [][NextAc]_vars

InitBind ==
    /\ NetIdle
    /\ SgIdle
    /\ RstIdle
    /\ BindIdle
    /\ GoIdle
    /\ AcIdle
    /\ SerIdle
    /\ engine = "single" /\ InitPve
NextBind ==
    \/ \E g \in Goroutines : RegRange(g)
    \/ \E g \in Goroutines : RegStore(g)
    \/ \E g \in Goroutines, t \in Threads : ApiEncrypt(g, t)
    \/ \E t \in Threads : RawVerify(t)
SpecBind == InitBind /\ [][NextBind]_vars

InitRestore ==
    /\ NetIdle
    /\ SgIdle
    /\ \E n \in BatchSizes, ek \in KeyIds, label \in Labels, r01 \in [Rows -> Seeds] :
         \E xs \in [Elems(n) -> BatchXInputs] :
            rst = [NoRst EXCEPT !.p = ec_pve_batch_encrypt(n, ek, label, xs, r01,
                                          [i \in Rows |-> 2], [i \in Rows |-> 1])]
    /\ BindIdle
    /\ GoIdle
    /\ AcIdle
    /\ SerIdle
    /\ engine = "batch" /\ InitPve
NextRestore == RestoreRow
SpecRestore == InitRestore /\ [][NextRestore]_vars

\* main() up to srv.Serve: loadKeyShareIfPresent, the messenger still being built
InitSigner ==
    /\ NetIdle
    /\ \E l \in [Parties -> BOOLEAN] :
         /\ keyShareLoaded = l
         /\ keyShare = [p \in Parties |-> IF l[p] THEN FileKey ELSE NoKey]
    /\ messenger = [p \in Parties |-> FALSE]
    /\ curve = [p \in Parties |-> FALSE]
    /\ lastErr = [p \in Parties |-> ""]
    /\ runs = 0
    /\ req = [r \in Reqs |-> NoReq]
    /\ bg = [g \in Gs |-> NoBg]
    /\ RstIdle
    /\ BindIdle
    /\ GoIdle
    /\ AcIdle
    /\ SerIdle
    /\ engine = "single" /\ InitPve
NextSigner ==
    \/ BuildMessenger \/ DkgHandler \/ SignHandler \/ PostStart \/ StartDirect
    \/ RunLocal \/ BgRun \/ KeyGenProtocol \/ SignProtocol \/ ProtocolFail
    \/ AssignKeyShare
SpecSigner == InitSigner /\ [][NextSigner]_vars

InitNet ==
    /\ is_abort = FALSE
    /\ queue \in [Senders -> 0 .. 1]
    /\ mutex = NoThread
    /\ notified = {}
    /\ rx = [t \in RxThreads |-> NoRx]
    /\ SgIdle
    /\ RstIdle
    /\ BindIdle
    /\ GoIdle
    /\ AcIdle
    /\ SerIdle
    /\ engine = "single" /\ InitPve
NextNet ==
    \/ RxCall \/ RxLock \/ RxLoop \/ RxWake \/ SpuriousWake \/ RxReturn
    \/ Send \/ Abort \/ Reset
SpecNet == InitNet /\ [][NextNet]_vars
\* a thread that is runnable runs (WF); a thread going for the mutex gets it if
\* the mutex is released again and again (SF)
NetFairness ==
    \A t \in RxThreads :
        /\ WF_vars(RxLoopOf(t))
        /\ WF_vars(RxWakeOf(t))
        /\ SF_vars(rx[t].pc = "lock" /\ RxLock /\ mutex' = t)
SpecNetLive == SpecNet /\ NetFairness

Init == InitPve /\ GoIdle /\ AcIdle /\ SerIdle /\ BindIdle /\ RstIdle /\ SgIdle /\ NetIdle
Next ==
    \/ EncryptSingle \/ VerifySingle \/ DecryptSingle \/ TamperSingle
    \/ EncryptBatch \/ VerifyBatch \/ DecryptBatch \/ TamperBatch
Spec == Init /\ [][Next]_vars

\* ------------------------------------------------------------------ claims
Single == engine = "single"
Batch == engine = "batch"
\* the instance under test
inst == IF Single THEN pve ELSE batch
\* the bundle is as encrypt produced it
Honest == enc.done /\ tampered = NoTamper
\* the call was made with the recipient's key and the label given to encrypt
RightKey == last.key = enc.ek
RightLabel == last.label = enc.label
\* the commitment of the encrypted value(s)
CommittedQ ==
    IF Single THEN MulG(enc.x) ELSE [j \in Elems(batch.n) |-> MulG(enc.x[j])]
\* the encrypted value(s) mod q
Secret ==
    IF Single THEN enc.x % Order ELSE [j \in Elems(batch.n) |-> enc.x[j] % Order]

\* C1: after ec_pve_t::encrypt(ek, label, curve, x), verify(ek, x*G, label)
\* succeeds, and decrypt with the matching dk and the same label succeeds and
\* returns x mod q (with and without the verification step).
C1_SingleRoundTrip ==
    (Single /\ Honest /\ RightKey /\ RightLabel) =>
        /\ (last.op = "verify" /\ last.Q = CommittedQ) => last.rv = SUCCESS
        /\ last.op = "decrypt" => (last.rv = SUCCESS /\ last.out = Secret)
\* a scalar that is not reduced mod q was encrypted, verified and decrypted
C1_Witness ==
    /\ Single /\ Honest /\ RightKey /\ RightLabel /\ enc.x > Order
    /\ last.op = "decrypt" /\ ~last.skip /\ last.rv = SUCCESS /\ last.out = 1

C3_SingleDecryptSound ==
    (Single /\ last.op = "decrypt" /\ last.rv = SUCCESS) =>
        /\ MulG(last.out) = pve.Q
        /\ pve.c[last.opened[Len(last.opened)]].ek = last.key
        /\ Honest => RightKey
\* decrypt was tried on an honest bundle with another private key, verification
\* skipped, and failed
C3_Witness ==
    /\ Single /\ Honest /\ ~RightKey /\ RightLabel
    /\ last.op = "decrypt" /\ last.skip /\ last.rv # SUCCESS

\* C4: whenever ec_pve_batch_t::decrypt returns success, every returned element
\* satisfies xs[j]*G = Q[j]; a row with an element that fails the check is
\* passed over.
C4_BatchDecryptSound ==
    (Batch /\ last.op = "decrypt" /\ last.rv = SUCCESS) =>
        /\ DOMAIN last.out = Elems(batch.n)
        /\ \A j \in Elems(batch.n) : MulG(last.out[j]) = batch.Q[j]
\* row 0 holds a changed last scalar while its first scalar still reconstructs:
\* the row was passed over and row 1 accepted
C4_Witness ==
    /\ Batch /\ batch.n > 1 /\ tampered = [part |-> "x", row |-> 0] /\ GetBit(batch.b, 0)
    /\ last.op = "decrypt" /\ last.skip /\ last.rv = SUCCESS /\ last.opened = <<0, 1>>

\* C5: for an honestly encrypted bundle, changing any part of it (Q, the label,
\* the challenge bits, or a row's retained scalar, seed or ciphertext) makes
\* verify called with the original (ek, Q, label) return an error.
C5_TamperFailsVerify ==
    (enc.done /\ tampered # NoTamper /\ last.op = "verify"
        /\ RightKey /\ RightLabel /\ last.Q = CommittedQ) => last.rv # SUCCESS

C7_VerifyRejectsArgs ==
    last.op = "verify" =>
        /\ (Single /\ (~last.Q.on \/ last.Q # pve.Q \/ last.label # pve.L))
              => last.rv # SUCCESS
        /\ (Batch /\ ((\E j \in DOMAIN last.Q : ~last.Q[j].on) \/ last.Q # batch.Q
                        \/ last.label # batch.L))
              => last.rv # SUCCESS
\* verify was called on an honest bundle with the committed Q, the recipient's
\* key and another label
C7_Witness ==
    /\ Single /\ Honest /\ RightKey /\ last.op = "verify"
    /\ last.Q = pve.Q /\ last.label # pve.L /\ last.rv # SUCCESS

\* C8: decrypt called with a label different from the one given to encrypt
\* returns an error and hands back no reconstructed value (the output is zero),
\* with and without the verification step, in both engines.
C8_WrongLabelDecryptFails ==
    (enc.done /\ last.op = "decrypt" /\ ~RightLabel) =>
        /\ last.rv # SUCCESS
        /\ last.out = IF Single THEN 0 ELSE [j \in Elems(batch.n) |-> 0]
\* the recipient decrypted an honest single-value bundle under another label,
\* verification skipped
C8_Witness ==
    /\ Single /\ Honest /\ RightKey /\ ~RightLabel
    /\ last.op = "decrypt" /\ last.skip /\ last.rv # SUCCESS

\* row k opens under dk and the label, and reconstructs the committed value(s)
RowOpensAndMatches(k) ==
    IF Single
    THEN LET d == BasePkeDecrypt(last.key, GenPVELabelWithPoint(last.label, pve.Q), pve.c[k])
         IN /\ d.rv = SUCCESS
            /\ ec_pve_restore_from_decrypted(pve, k, d.plain).rv = SUCCESS
    ELSE LET d == BasePkeDecrypt(last.key, GenPVELabelWithPoint(last.label, batch.Q),
                                 batch.rows[k].c)
         IN /\ d.rv = SUCCESS
            /\ ec_pve_batch_restore_from_decrypted(
                   batch, k, d.plain, [j \in Elems(batch.n) |-> 0]).rv = SUCCESS

\* C9: when opening the retained ciphertext of a row fails during decrypt, the
\* call goes on with the next row, and it returns success if a later row
\* reconstructs a value matching Q.
C9_OpenFailureAdvances ==
    (enc.done /\ last.op = "decrypt" /\ last.skip /\ last.label = inst.L
        /\ \E k \in Rows : RowOpensAndMatches(k)) => last.rv = SUCCESS

\* C10: verify and decrypt never change the instance: across every such call,
\* failing or not, Q, label, challenge and rows stay what they were (what
\* encrypt left, if nothing was changed since), and the same call made again
\* returns what it returned before.
C10_CallsLeaveInstance ==
    [][last'.op \in {"verify", "decrypt"} =>
         /\ pve' = pve /\ batch' = batch
         /\ Honest => (IF Single THEN pve' ELSE batch') = orig
         /\ last'.again => (last'.rv = last.rv /\ last'.out = last.out)]_vars
\* the recipient decrypted an honest bundle a second time
C10_Witness ==
    /\ Single /\ Honest /\ RightKey /\ RightLabel /\ pve = orig
    /\ last.op = "decrypt" /\ last.again /\ last.rv = SUCCESS /\ last.out = Secret

\* the point(s) handed to verify pass the curve check
SuppliedOnCurve ==
    IF Single THEN CurveCheck(last.Q) = SUCCESS
    ELSE /\ DOMAIN last.Q = Elems(batch.n)
         /\ \A j \in Elems(batch.n) : CurveCheck(last.Q[j]) = SUCCESS

\* what verify returns when the challenge it recomputes differs from the stored
\* one: the encrypted instance with the ciphertext of row 0 changed, verified
\* with its own Q and label under the encryption key
ChallengeMismatchRv ==
    IF Single
    THEN ec_pve_verify([orig EXCEPT !.c[0].pt = ToBin((FromBin(@) + 1) % Order)],
                       enc.ek, orig.Q, orig.L).rv
    ELSE ec_pve_batch_verify([orig EXCEPT !.rows[0].c.pt = Append(@, 1)],
                             enc.ek, orig.Q, orig.L).rv

\* C19: when verify fails because the supplied label or point differs from the
\* stored one, the error it returns differs from the error it returns when the
\* recomputed challenge differs from the stored challenge.
C19_MismatchDistinguishable ==
    (enc.done /\ last.op = "verify" /\ SuppliedOnCurve
        /\ (last.Q # inst.Q \/ last.label # inst.L)) =>
        /\ last.rv # SUCCESS
        /\ last.rv # ChallengeMismatchRv

\* what decrypt leaves in its output when it gives up
Cleared == IF Single THEN 0 ELSE << >>

\* C20: decrypt hands at most kappa rows to the base decryption, each row at
\* most once and in ascending index order; when no row reconstructs a value
\* matching Q it fails, and when all kappa rows were tried without a match it
\* returns the reconstruction failure with its output cleared.
C20_DecryptRowsBounded ==
    last.op = "decrypt" =>
        /\ Len(last.opened) <= Kappa
        /\ \A k \in DOMAIN last.opened : last.opened[k] \in Rows
        /\ \A j, k \in DOMAIN last.opened : j < k => last.opened[j] < last.opened[k]
        /\ (\A k \in Rows : ~RowOpensAndMatches(k)) => last.rv # SUCCESS
        /\ (Len(last.opened) = Kappa /\ \A k \in Rows : ~RowOpensAndMatches(k)) =>
               (last.rv = E_CRYPTO /\ last.out = Cleared)
\* every row of a bundle whose retained scalars were all changed was opened,
\* row 0 then row 1, and none reconstructed
C20_Witness ==
    /\ Single /\ tampered.part = "x_all" /\ RightKey /\ RightLabel
    /\ last.op = "decrypt" /\ last.skip
    /\ last.opened = <<0, 1>> /\ last.rv = E_CRYPTO /\ last.out = 0

\* ---------------------------------------------------- claims on the Go binding
\* the KEM implementation handle h was made with
OwnKem(h) == handles[h].kem
\* what the call recorded in c returns when no other call runs: every callback
\* is answered by the implementation of its handle
Alone(c) ==
    LET own == KemKey(OwnKem(c.h), c.key)
    IN IF c.op = "verify"
       THEN [rv |-> pve_verify(c.key, c.b, c.label,
                               [k \in 1 .. Kappa |-> OwnKem(c.h)]).rv, out |-> NewPve]
       ELSE LET d == ec_pve_decrypt(c.b, own, own, c.label, TRUE)
            IN [rv |-> d.rv, out |-> d.x_out]

\* C11: verify and decrypt calls that run concurrently on the same PVE handle
\* and the same ciphertext, in any interleaving and without locks, each return
\* what they return when run alone.
C11_ConcurrentCallsAsAlone ==
    \A g \in Goroutines :
        ret[g].op \in {"verify", "decrypt"} =>
            (ret[g].rv = Alone(ret[g]).rv /\ ret[g].out = Alone(ret[g]).out)
\* two goroutines decrypted and verified the same ciphertext on the same handle
\* at the same time, and both succeeded
C11_Witness ==
    /\ ret[1].op = "decrypt" /\ ret[2].op = "verify"
    /\ ret[1].h = ret[2].h /\ ret[1].b = ret[2].b
    /\ ret[1].shared /\ ret[2].shared
    /\ ret[1].rv = SUCCESS /\ ret[1].out = GoX /\ ret[2].rv = SUCCESS

\* C12: the KEM implementation that answers the callbacks of a native PVE call
\* is determined by the arguments of the call (the engine it constructs holds
\* no backend): two calls with the same arguments are answered by the same
\* implementation.
C12_BackendFromArguments ==
    \A g1, g2 \in Goroutines :
        (/\ gor[g1].pc = "native" /\ gor[g2].pc = "native"
         /\ gor[g1].op = gor[g2].op /\ gor[g1].key = gor[g2].key
         /\ gor[g1].label = gor[g2].label /\ gor[g1].b = gor[g2].b
         /\ gor[g1].cbs # << >> /\ gor[g2].cbs # << >>) =>
            gor[g1].cbs[1] = gor[g2].cbs[1]

\* C13: in every interleaving of Encrypt, Verify and Decrypt calls of
\* concurrent goroutines on handles bound to different KEM implementations,
\* every callback raised during a call on handle p is answered by p's own
\* implementation.
C13_CallbacksReachOwnKem ==
    \A g \in Goroutines :
        /\ \A k \in DOMAIN gor[g].cbs : gor[g].cbs[k] = OwnKem(gor[g].h)
        /\ \A k \in DOMAIN ret[g].cbs : ret[g].cbs[k] = OwnKem(ret[g].h)
\* two goroutines are inside native calls on handles with different
\* implementations, each with callbacks answered and more to come
C13_Witness ==
    /\ gor[1].pc = "native" /\ gor[2].pc = "native"
    /\ OwnKem(gor[1].h) # OwnKem(gor[2].h)
    /\ gor[1].cbs # << >> /\ gor[2].cbs # << >>
    /\ ~Native(gor[1]).done /\ ~Native(gor[2]).done

\* C18: when a base encryption of a row fails during encrypt, the call reports
\* an error and returns no ciphertext bundle as a success.
C18_EncryptReportsBaseFailure ==
    \A g \in Goroutines :
        (/\ ret[g].op = "encrypt"
         /\ \E k \in DOMAIN ret[g].cbs :
                BasePkeEncryptRv(KemKey(ret[g].cbs[k], ret[g].key)) # SUCCESS) =>
            ret[g].rv # SUCCESS

\* the label, plaintext and rho ec_pve_t::encrypt hands to its k-th base
\* encryption (c0 of row 0, c1 of row 0, c0 of row 1, ...)
BaseEncryptArgs(label, k) ==
    LET i == (k - 1) \div 2
        x0 == DrbgGenBn(<<GoR0[i]>>)
        x1 == ((GoX % Order) - x0 + Order) % Order
    IN [label |-> GenPVELabelWithPoint(label, MulG(GoX % Order)),
        plain |-> IF k % 2 = 1 THEN ToBin(x0) ELSE ToBin(x1),
        rho |-> IF k % 2 = 1 THEN DrbgGen(<<GoR0[i]>>, 1) ELSE DrbgGen(<<GoR1[i]>>, 0)]
\* the ciphertext the k-th base encryption of the Encrypt call c produced:
\* kem_pve_base_pke<kem_policy_ffi_t>().encrypt(ek, label, plain, rho, out_ct)
BaseCt(c, k) ==
    LET a == BaseEncryptArgs(c.label, k)
    IN BasePkeEncrypt(KemKey(c.cbs[k], c.key), a.label, a.plain, a.rho)

\* C15: the base encryption adapter is a function of its inputs: two encrypt
\* calls with identical (ek, label, plaintext, rho) return identical
\* ciphertexts, whatever was called before.
C15_BaseEncryptDeterministic ==
    \A g1, g2 \in Goroutines :
        (/\ ret[g1].op = "encrypt" /\ ret[g2].op = "encrypt"
         /\ ret[g1].key = ret[g2].key /\ ret[g1].label = ret[g2].label) =>
            \A k \in DOMAIN ret[g1].cbs \cap DOMAIN ret[g2].cbs :
                BaseCt(ret[g1], k) = BaseCt(ret[g2], k)

\* the last call was aggregate_to_restore_row over shares of the encrypted
\* instance, for the row they were decrypted for
Aggregated == acEnc.done /\ acLast.op = "aggregate"
\* the scalars that were encrypted, as decrypt of a single-recipient instance
\* returns them
AcSecret == [j \in Elems(acEnc.p.n) |-> acEnc.xs[j] % Order]

\* C16: for each access structure and each subset of leaves that satisfies it,
\* aggregate_to_restore_row over the shares party_decrypt_row produced for
\* exactly that subset, with the same row index and the same label, succeeds
\* and returns the encrypted scalars, element by element.
C16_QuorumRestores ==
    (Aggregated /\ Sat(acEnc.ac, acLast.leaves) /\ acLast.label = acEnc.label) =>
        /\ acLast.rv = SUCCESS
        /\ acLast.out = AcSecret
\* a minimal quorum of the AND/OR structure restored MaxN different scalars
\* from the second row
C16_Witness ==
    /\ Aggregated /\ acEnc.ac = AndOr /\ acLast.leaves = {"p1", "p3"}
    /\ acLast.label = acEnc.label /\ acLast.row = Kappa - 1
    /\ acEnc.p.n = MaxN /\ acEnc.xs[0] = Order + 1 /\ acEnc.xs[MaxN - 1] = 2
    /\ acLast.rv = SUCCESS /\ acLast.out = AcSecret

\* C17: aggregate_to_restore_row over the shares of a subset of leaves that
\* does not satisfy the access structure returns an error and no values.
C17_NoQuorumFails ==
    (Aggregated /\ ~Sat(acEnc.ac, acLast.leaves)) =>
        /\ acLast.rv # SUCCESS
        /\ acLast.out = << >>
\* two leaves that are a quorum of 2-of-3 but not of p1 AND (p2 OR p3) were
\* refused under the right label
C17_Witness ==
    /\ Aggregated /\ acEnc.ac = AndOr /\ acLast.leaves = {"p2", "p3"}
    /\ acLast.label = acEnc.label
    /\ acLast.rv # SUCCESS /\ acLast.out = << >>

\* deser was given the serialization of an encrypted instance; a batch
\* instance was read into an instance constructed with its batch count
Deserialized ==
    /\ serPc \in {"deser", "reser"}
    /\ serSrc.kind = "batch" => serGot.n = serSrc.p.n

\* C14: for every single, batch and quorum instance encrypt produced,
\* serializing succeeds, deserializing these bytes succeeds and gives an
\* instance with the same Q, label, challenge bits and rows, and serializing
\* the deserialized instance gives the same bytes again.
C14_SerializeRoundTrip ==
    /\ serPc \in {"ser", "deser", "reser"} => ~serWire.err
    /\ Deserialized =>
          /\ ~serGot.err
          /\ serGot.p.Q = serSrc.p.Q
          /\ serGot.p.L = serSrc.p.L
          /\ serGot.p.b = serSrc.p.b
          /\ serSrc.kind = "single" =>
                /\ serGot.p.x_rows = serSrc.p.x_rows
                /\ serGot.p.r = serSrc.p.r
                /\ serGot.p.c = serSrc.p.c
          /\ serSrc.kind # "single" => serGot.p.rows = serSrc.p.rows
    /\ (Deserialized /\ serPc = "reser") =>
          /\ ~serWire2.err
          /\ serWire2.w = serWire.w
\* a quorum instance of MaxN scalars went through convert, deser and convert
C14_Witness ==
    /\ serPc = "reser" /\ serSrc.kind = "quorum" /\ serSrc.p.n = MaxN
    /\ serSrc.p.Q[0] # serSrc.p.Q[MaxN - 1]
    /\ serGot.p = serSrc.p /\ serWire2 = serWire /\ Len(serWire.w) > Buf128Size

\* what encrypt drew and computed for row i of the single-value instance it
\* produced: the seeds, the two ciphertexts and the second share
EncR0(i) == orig.b.pre.c0[i].rho.seed[1]
EncR1(i) == orig.b.pre.c1[i].rho.seed[1]
EncX1(i) == ((enc.x % Order) - DrbgGenBn(<<EncR0(i)>>) + Order) % Order
\* the same for the batch instance: r01 seeds x0, r02 and r1 seed the base
\* encryptions
EncR01(i) == orig.b.pre.c0[i].pt[1]
EncR02(i) == orig.b.pre.c0[i].rho.seed[1]
EncR1Batch(i) == orig.b.pre.c1[i].rho.seed[1]
EncX1Bin(i) ==
    VectorToBin([j \in Elems(orig.n) |->
                    ((enc.x[j] % Order) - DrbgGenVec(<<EncR01(i)>>, orig.n)[j] + Order) % Order],
                orig.n)

\* C21: in the instance encrypt produced, a row with b[i] = 1 holds the seed
\* r1[i], the ciphertext c0[i] and the scalar x1[i]; a row with b[i] = 0 holds the
\* seed of x0[i], the ciphertext c1[i] and a cleared scalar; a row that holds the
\* seed of x0[i] (drawn different from r1[i]) holds no scalar.
C21_RowsRetained ==
    /\ (Single /\ enc.done) =>
          \A i \in Rows :
             /\ GetBit(orig.b, i) =>
                   /\ orig.r[i] = EncR1(i)
                   /\ orig.c[i] = orig.b.pre.c0[i]
                   /\ orig.x_rows[i] = EncX1(i)
             /\ ~GetBit(orig.b, i) =>
                   /\ orig.r[i] = EncR0(i)
                   /\ orig.c[i] = orig.b.pre.c1[i]
                   /\ orig.x_rows[i] = 0
             /\ (EncR0(i) # EncR1(i) /\ orig.r[i] = EncR0(i)) => orig.x_rows[i] = 0
    /\ (Batch /\ enc.done) =>
          \A i \in Rows :
             /\ GetBit(orig.b, i) =>
                   /\ orig.rows[i].r = <<EncR1Batch(i)>>
                   /\ orig.rows[i].c = orig.b.pre.c0[i]
                   /\ orig.rows[i].x_bin = EncX1Bin(i)
             /\ ~GetBit(orig.b, i) =>
                   /\ orig.rows[i].r = <<EncR01(i), EncR02(i)>>
                   /\ orig.rows[i].c = orig.b.pre.c1[i]
                   /\ orig.rows[i].x_bin = << >>
             /\ orig.rows[i].r[1] = EncR01(i) /\ Len(orig.rows[i].r) = 2
                   => orig.rows[i].x_bin = << >>
\* encrypt produced a single-value instance with a row of each kind, whose
\* cleared row had a second share that is not zero
C21_Witness ==
    /\ Single /\ enc.done /\ last.op = "encrypt"
    /\ GetBit(orig.b, 0) /\ ~GetBit(orig.b, 1)
    /\ orig.x_rows[0] = EncX1(0) /\ orig.x_rows[0] # 0
    /\ EncX1(1) # 0 /\ orig.x_rows[1] = 0 /\ EncR0(1) # EncR1(1)

\* what verify(ek, Q, label) answers on the instance the last decrypt was
\* called on, with the arguments decrypt hands to it
VerifyOfDecrypt ==
    LET ek == IF enc.done THEN enc.ek ELSE last.key
    IN IF Single THEN ec_pve_verify(pve, ek, pve.Q, last.label)
       ELSE ec_pve_batch_verify(batch, ek, batch.Q, last.label)

\* C22: a decrypt called with skip_verify = false runs verify first: when
\* verify fails, decrypt returns verify's error and no row was handed to the
\* base decryption; rows are opened only when verify succeeded.
C22_VerifyBeforeOpen ==
    (last.op = "decrypt" /\ ~last.skip) =>
        /\ VerifyOfDecrypt.rv # SUCCESS =>
              (last.rv = VerifyOfDecrypt.rv /\ last.opened = << >>)
        /\ last.opened # << >> => VerifyOfDecrypt.rv = SUCCESS
\* a decrypt with the recipient's key and a label other than the encrypted one
\* was refused by verify before any row was opened
C22_Witness ==
    /\ Single /\ Honest /\ RightKey /\ ~RightLabel
    /\ last.op = "decrypt" /\ ~last.skip
    /\ VerifyOfDecrypt.rv = E_CRYPTO /\ VerifyOfDecrypt.msg = "label mismatch"
    /\ last.rv = E_CRYPTO /\ last.opened = << >>

\* C23: a native call made on a thread by a caller that activated no context
\* returns an error, and none of its callbacks is answered by an implementation
\* (in particular not by the one an earlier call left active on the thread).
C23_RawCallFails ==
    bindRet.kind = "raw" =>
        /\ bindRet.rv # SUCCESS
        /\ \A k \in DOMAIN bindRet.cbs : bindRet.cbs[k] = NoKem

\* C24: the registry maps at most one context to each KEM implementation, and
\* all finished RegisterKEMInstance calls for one implementation returned the
\* same context.
C24_OneCtxPerKem ==
    /\ \A p \in Kems : Cardinality({c \in Ctxs : instanceReg[c] = p}) <= 1
    /\ \A g1, g2 \in Goroutines :
          (reg[g1].pc = "done" /\ reg[g2].pc = "done" /\ reg[g1].kem = reg[g2].kem)
              => reg[g1].ctx = reg[g2].ctx

\* C25: ec_pve_batch_t::restore_from_decrypted called with a row index outside
\* 0 .. kappa - 1 returns the argument error and reads neither b nor rows.
C25_RestoreChecksRow ==
    (rst.called /\ rst.row_index \notin Rows) =>
        /\ rst.rv = E_BADARG
        /\ rst.reads = {}

\* the byte length of the curve order q
OrderBinSize == Len(ToBin(Order))
\* the scalar verify re-encrypts for row i of the instance it is called on
VerifyXi(i) == IF GetBit(pve.b, i) THEN pve.x_rows[i] ELSE DrbgGenBn(<<pve.r[i]>>)
\* C26: every row plaintext the single-value engine encrypts (both shares of
\* every row in encrypt, the recomputed share of every row in verify) is as long
\* as the curve order, small values being padded with leading zeros.
C26_FixedWidthRows ==
    /\ (Single /\ enc.done) =>
          \A i \in Rows :
             /\ Len(orig.b.pre.c0[i].pt) = OrderBinSize
             /\ Len(orig.b.pre.c1[i].pt) = OrderBinSize
    /\ (Single /\ last.op = "verify" /\ last.msg \in {"", "b' != b"}) =>
          \A i \in Rows : Len(ToBin(VerifyXi(i))) = OrderBinSize

\* the single-value instance is as constructed: encrypt never ran on it and
\* nothing was loaded into it
Uninitialized == Single /\ ~enc.done /\ tampered = NoTamper /\ pve = NewPve
\* C27: verify and decrypt (with or without skip_verify) called on an instance
\* that was never populated return an error.
C27_UninitializedFails ==
    (Uninitialized /\ last.op \in {"verify", "decrypt"}) => last.rv # SUCCESS
\* decrypt was called with skip_verify on a fresh instance and opened a row
C27_Witness ==
    /\ Uninitialized /\ last.op = "decrypt" /\ last.skip
    /\ last.rv # SUCCESS /\ Len(last.opened) > 0
\* verify was called on a fresh instance with a point on the curve
C27_WitnessVerify ==
    /\ Uninitialized /\ last.op = "verify" /\ last.Q.on
    /\ last.msg = "public key (Q) mismatch"

\* C28: for any interleaving of /dkg and /internal/start_dkg requests the two
\* parties complete at most one key generation, and a party whose key share is
\* loaded never has it replaced.
C28_KeyShareOnce ==
    /\ [](runs <= 1)
    /\ [][\A p \in Parties : keyShareLoaded[p] => keyShare'[p] = keyShare[p]]_vars

\* a background key generation or signing starts on the follower
Spawned(g) == bg[g].pc = "none" /\ bg'[g].pc = "start"
\* C29: a key generation or signing starts on the follower only when the
\* follower's messenger is ready and, if the leader's handler asked for it, the
\* leader's messenger is ready too; a leader whose messenger is not ready starts
\* no protocol itself.
C29_NotReadyStartsNothing ==
    [][/\ \A g \in Gs :
             Spawned(g) => /\ messenger[Follower]
                           /\ bg'[g].from = "leader" => messenger[Leader]
       /\ \A r \in Reqs :
             (req[r].pc # "proto" /\ req'[r].pc = "proto") => messenger[Leader]]_vars

\* a receive_all of thread t is in progress
InReceiveAll(t) == rx[t].pc \in {"lock", "loop", "wait"}
\* C30: once abort() has set is_abort, every receive_all that is in progress
\* (blocked in cond.wait, going for the mutex, or just called) returns E_GENERAL
\* after finitely many steps.
C30_AbortEndsReceiveAll ==
    \A t \in RxThreads :
        (is_abort /\ InReceiveAll(t)) ~> (rx[t].pc = "done" /\ rx[t].rv = E_GENERAL)
\* after abort one thread has returned the error while another, which was
\* blocked in cond.wait and has been notified, is still on its way out
C30_Witness ==
    /\ is_abort
    /\ \E t, u \in RxThreads :
         /\ rx[t].pc = "done" /\ rx[t].rv = E_GENERAL
         /\ rx[u].pc = "wait" /\ u \in notified
====
